---------------------------- MODULE Spec2Model ----------------------------
(***************************************************************************)
(* Model of the Pomodoro tracker component (PomodoroTracker): its timer,    *)
(* task list, settings, background music and persistence; and of the       *)
(* Moment.js sandbox (Home).                                               *)
(*                                                                         *)
(* Both are React function components.  Their state lives in useState      *)
(* cells (todos, timer, settings, ...).  Event handlers run on the single   *)
(* UI thread against the state of the latest render; effects run after     *)
(* the render that follows a handler.  An action of this model is one      *)
(* handler (or one callback of a timer or of the YouTube widget) together   *)
(* with the effects of the render it causes: the write-through to           *)
(* localStorage, the re-creation of the one-second interval when            *)
(* timer.isActive changes, and the playback effects.  A callback that was   *)
(* created in an earlier render reads the cells of that render.            *)
(*                                                                         *)
(* The router shows one of three routes in a document: Index, Home or      *)
(* PomodoroTracker.  Following a Link unmounts the component of the old    *)
(* route and mounts that of the new one; timeouts, promises and widget     *)
(* callbacks of an unmounted component still run, and its setters then     *)
(* change nothing.                                                         *)
(***************************************************************************)
EXTENDS Integers, Sequences, FiniteSets, TLC

VARIABLES
    todos,       \* useState<TodoItem[]>: sequence of task records
    timer,       \* useState<PomodoroTimer>
    settings,    \* useState<Settings>
    interval,    \* <<>> when no interval exists, else <<s>>: the settings
                 \* object captured by the closure of the setInterval callback
    emitted,     \* notifications created by the last step (titles, in order)
    permission,  \* Notification.permission of the browser
    storage,     \* localStorage: the four slots written by the component
    clock,       \* Date.now(): source of the ids of new tasks
    editingTaskId,    \* useState<string | null>: the task being edited
    editingTitle,     \* useState(""): the title field of the edit row
    editingPomodoros, \* useState(1): the estimate field of the edit row
    youtubePlaylist,  \* useState<YouTubeTrack[]>: sequence of track records
    currentTrack,     \* useState(0): 0-based position in the playlist
    isPlaying,        \* useState(false)
    youtubePlayer,    \* useState<any>(null): <<>> or the handle of the widget
    isYouTubeAPIReady, \* useState(false)
    widget,      \* the YT.Player object: <<>> when none was created, else <<c>>:
                 \* the state captured by the closures of its event handlers
    pendingPlays, \* setTimeout(() => playMusic(), 500) not yet fired: the
                 \* state captured by each callback, oldest first
    commands,    \* calls made on the widget by the last step, in order
    alerted,     \* messages shown with alert() by the last step
    loaded,      \* the state updates queued by the load effect and not yet
                 \* rendered: <<>> when none, else <<u>>, u.store the slots
                 \* the effect read and u.apiReady whether window.YT existed
    windowYT,    \* window.YT in this document: "none" while no script tag of
                 \* the IFrame API was added, "loading" once loadYouTubeAPI
                 \* added one, "defined" once the script has run
    orphans,     \* callbacks of unmounted PomodoroTrackers that have not run
                 \* yet: the delayed playMusic calls and the onReady of a
                 \* widget, each with the cells its closure holds
    route,       \* the route the router shows: "/" (Index), "/home" (Home)
                 \* or "/pomodoro" (PomodoroTracker)
    code,        \* Home: useState(DEFAULT_CODE), the text of the editor
    output,      \* Home: useState(''): the captured console lines
    result,      \* Home: useState<any>(null): <<>> for null, else <<value>>
    error,       \* Home: useState(''): the message of the error
    editorRef,   \* Home: editorRef.current is set (the editor has mounted)
    consoleLog,  \* console.log: "native" or <<n>>, the capture function that
                 \* execution n installed
    executions,  \* calls of executeCode waiting at await func(moment);
                 \* e.live: the Home that made the call is still mounted
    autoRun,     \* the timeout of the auto-execute effect: <<>> or <<c>>, the
                 \* code of the render that set it
    mountRun,    \* the timeouts set by handleEditorDidMount and not yet
                 \* fired, oldest first: the code of the render that set
                 \* each, and whether that Home is still mounted
    runs         \* number of calls of executeCode so far

\* The cells of the Pomodoro tracker and what surrounds it.
pomodoro == <<todos, timer, settings, interval, emitted, permission, storage,
              clock, editingTaskId, editingTitle, editingPomodoros,
              youtubePlaylist, currentTrack, isPlaying, youtubePlayer,
              isYouTubeAPIReady, widget, pendingPlays, commands, alerted,
              loaded, windowYT, orphans>>

\* The cells of the Moment.js sandbox (Home) and what surrounds it.
sandbox == <<code, output, result, error, editorRef, consoleLog, executions,
             autoRun, mountRun, runs>>

vars == <<pomodoro, sandbox, route>>

\* The three cells of the task editor.
editing == <<editingTaskId, editingTitle, editingPomodoros>>

---------------------------------------------------------------------------
(* Bounds of the model. *)

\* Largest duration (minutes) offered as a settings input in Spec.
MaxDuration == 2
\* Number of tasks that are ever created (values of the clock).
MaxTasks == 2
\* Cap on completedPomodoros: the expiry that would exceed it is not taken.
MaxCompleted == 1

---------------------------------------------------------------------------
(* Program constants. *)

\* currentTaskId: null.  Task ids are positive clock values.
Null == 0
\* useState defaults of settings and timer.
DefaultWorkDuration == 25
DefaultBreakDuration == 5
\* musicVolume is kept in tenths (the range input has step 0.1): 0.5 is 5.
DefaultMusicVolume == 5
\* seconds value after borrowing a minute.
BorrowSeconds == 59
\* newTodoPomodoros default.
DefaultEstimate == 1

DefaultSettings ==
    [workDuration |-> DefaultWorkDuration,
     breakDuration |-> DefaultBreakDuration,
     notificationsEnabled |-> TRUE,
     musicEnabled |-> FALSE,
     musicVolume |-> DefaultMusicVolume]

DefaultTimer ==
    [minutes |-> DefaultWorkDuration,
     seconds |-> 0,
     isActive |-> FALSE,
     isBreak |-> FALSE,
     currentTaskId |-> Null]

---------------------------------------------------------------------------
(* Objects, spread and JSON. *)

\* { ...a, ...b }: the keys of both, b's value where b has the key.
Spread(a, b) ==
    [k \in (DOMAIN a) \cup (DOMAIN b) |-> IF k \in DOMAIN b THEN b[k] ELSE a[k]]

\* a ?? b on an optional field of a partial object.
FieldOr(obj, key, dflt) == IF key \in DOMAIN obj THEN obj[key] ELSE dflt

\* Key order of the serialized objects.
TodoKeys == <<"id", "title", "estimatedPomodoros", "completedPomodoros", "isCompleted">>
TrackKeys == <<"id", "title", "videoId", "url">>
TimerKeys == <<"minutes", "seconds", "isActive", "isBreak", "currentTaskId">>
SettingsKeys == <<"workDuration", "breakDuration", "notificationsEnabled", "musicEnabled", "musicVolume">>

\* JSON.stringify of an object: its members as <<key, value>> pairs, in order.
StringifyObject(obj, keys) == [i \in 1..Len(keys) |-> <<keys[i], obj[keys[i]]>>]

\* JSON.parse of the text of an object: the object with the members of the text.
ParseObject(text) ==
    [k \in {text[i][1] : i \in 1..Len(text)} |->
        text[CHOOSE i \in 1..Len(text) : text[i][1] = k][2]]

StringifyArray(arr, keys) == [i \in 1..Len(arr) |-> StringifyObject(arr[i], keys)]
ParseArray(text) == [i \in 1..Len(text) |-> ParseObject(text[i])]

\* A slot of localStorage: <<>> when getItem returns null, else <<item>> where
\* item.ok tells whether item.text is well-formed JSON.
Item(text) == <<[ok |-> TRUE, text |-> text]>>
Malformed == <<[ok |-> FALSE, text |-> <<>>]>>

---------------------------------------------------------------------------
(* Persistence: the four save effects and the load effect. *)

\* The save effects: every slot holds JSON.stringify of its aggregate.
Saved(td, st, tm, pl) ==
    [todos |-> Item(StringifyArray(td, TodoKeys)),
     settings |-> Item(StringifyObject(st, SettingsKeys)),
     timer |-> Item(StringifyObject(tm, TimerKeys)),
     playlist |-> Item(StringifyArray(pl, TrackKeys))]

\* if (saved) { try { set(JSON.parse(saved)) } catch {} }: the parsed value,
\* or the default when the slot is absent or malformed.
LoadedTodos(store) ==
    IF store.todos # <<>> /\ store.todos[1].ok
    THEN ParseArray(store.todos[1].text) ELSE <<>>

LoadedSettings(store) ==
    IF store.settings # <<>> /\ store.settings[1].ok
    THEN ParseObject(store.settings[1].text) ELSE DefaultSettings

\* Mutant: the four slots are parsed in one try block, the playlist last.
LoadedPlaylist_SharedTry(store) ==
    IF /\ \A k \in {"todos", "settings", "timer"} :
             store[k] = <<>> \/ store[k][1].ok
       /\ store.playlist # <<>> /\ store.playlist[1].ok
    THEN ParseArray(store.playlist[1].text) ELSE <<>>

LoadedPlaylist(store) ==
    IF store.playlist # <<>> /\ store.playlist[1].ok
    THEN ParseArray(store.playlist[1].text) ELSE <<>>

\* Mutant: the load does not override isActive.
LoadOverride_None == <<>>

\* The isActive override of the load: isActive: false.
LoadOverride == [isActive |-> FALSE]

\* setTimer(prev => ({ ...prev, ...parsedTimer, isActive: false }))
LoadedTimer(store) ==
    IF store.timer # <<>> /\ store.timer[1].ok
    THEN Spread(Spread(DefaultTimer, ParseObject(store.timer[1].text)), LoadOverride)
    ELSE DefaultTimer

\* The timer effect: it runs when timer.isActive changed, clears the old
\* interval and, when the timer is active, creates one whose callback closes
\* over the settings of that render.
TimerEffect(wasActive, old, tm, st) ==
    IF tm.isActive = wasActive THEN old
    ELSE IF tm.isActive THEN <<st>> ELSE <<>>

---------------------------------------------------------------------------
(* Background music: the YouTube widget and the three playback effects.     *)

\* useState<any>(null) of youtubePlayer; once the widget is ready the cell
\* holds its handle.
NoPlayer == <<>>
PlayerHandle == <<"YT.Player">>

\* The condition of the autoplay effect.
AutoplayWanted(pl, st, tm) ==
    st.musicEnabled /\ tm.isActive /\ ~tm.isBreak /\ Len(pl) > 0

\* playMusic of a render whose cells are yp, st and pl: whether it acts.
PlayMusicActs(pl, yp, st) ==
    yp # NoPlayer /\ st.musicEnabled /\ Len(pl) > 0

\* pauseMusic of a render whose player cell is yp: whether it acts.
PauseMusicActs(yp) == yp # NoPlayer

\* Mutant: the length of the playlist is no dependency of the autoplay effect.
AutoplayDepsChanged_NoLength(pl, yp, st, tm) ==
    \/ st.musicEnabled # settings.musicEnabled
    \/ tm.isActive # timer.isActive
    \/ tm.isBreak # timer.isBreak
    \/ yp # youtubePlayer

\* The dependencies of the autoplay effect differ from the previous render's.
AutoplayDepsChanged(pl, yp, st, tm) ==
    \/ st.musicEnabled # settings.musicEnabled
    \/ tm.isActive # timer.isActive
    \/ tm.isBreak # timer.isBreak
    \/ yp # youtubePlayer
    \/ Len(pl) # Len(youtubePlaylist)

\* The calls the autoplay effect makes on the widget.
AutoplayCommands(pl, yp, st, tm) ==
    IF ~AutoplayDepsChanged(pl, yp, st, tm) THEN <<>>
    ELSE IF AutoplayWanted(pl, st, tm)
         THEN IF PlayMusicActs(pl, yp, st) THEN <<[call |-> "playVideo"]>> ELSE <<>>
         ELSE IF PauseMusicActs(yp) THEN <<[call |-> "pauseVideo"]>> ELSE <<>>

\* isPlaying after the autoplay effect, ip being its value before.
AutoplayIsPlaying(pl, ip, yp, st, tm) ==
    IF ~AutoplayDepsChanged(pl, yp, st, tm) THEN ip
    ELSE IF AutoplayWanted(pl, st, tm)
         THEN IF PlayMusicActs(pl, yp, st) THEN TRUE ELSE ip
         ELSE IF PauseMusicActs(yp) THEN FALSE ELSE ip

\* settings.musicVolume * 100, musicVolume being kept in tenths.
WidgetVolume(st) == st.musicVolume * 10

\* The volume effect: it runs when settings.musicVolume or youtubePlayer
\* changed and calls setVolume when the player exists.
VolumeEffect(yp, st) ==
    IF (st.musicVolume # settings.musicVolume \/ yp # youtubePlayer)
       /\ yp # NoPlayer
    THEN <<[call |-> "setVolume", volume |-> WidgetVolume(st)]>>
    ELSE <<>>

\* The effect that creates the widget: it runs when isYouTubeAPIReady, the
\* length of the playlist or youtubePlayer changed, and creates a YT.Player
\* when the API is ready, the playlist is not empty and youtubePlayer is
\* null.  The handlers of the new widget close over the cells of the render
\* in which the effect runs; a widget created over an earlier one replaces it.
InitPlayerEffect(pl, ct, ip, yp, ready, st) ==
    IF (ready # isYouTubeAPIReady \/ Len(pl) # Len(youtubePlaylist)
        \/ yp # youtubePlayer)
       /\ ready /\ Len(pl) > 0 /\ yp = NoPlayer
    THEN <<[closure |-> [youtubePlaylist |-> pl, currentTrack |-> ct,
                         isPlaying |-> ip, youtubePlayer |-> yp,
                         settings |-> st],
            state |-> "cued"]>>
    ELSE widget

\* The state of the widget's video after the call c, s being its state
\* before: playVideo and loadVideoById start playback, pauseVideo pauses a
\* playing video.
PlayerStateAfter(s, c) ==
    CASE c.call = "playVideo" -> "playing"
      [] c.call = "loadVideoById" -> "playing"
      [] c.call = "pauseVideo" -> IF s = "playing" THEN "paused" ELSE s
      [] OTHER -> s

RECURSIVE PlayerStateRun(_, _)
\* The state of the widget's video after the calls cmds, in order.
PlayerStateRun(s, cmds) ==
    IF cmds = <<>> THEN s
    ELSE PlayerStateRun(PlayerStateAfter(s, Head(cmds)), Tail(cmds))

\* The widget w after the calls cmds.
WidgetRun(w, cmds) ==
    IF w = <<>> THEN w
    ELSE <<[w[1] EXCEPT !.state = PlayerStateRun(w[1].state, cmds)]>>

\* The effects of the render that follows a handler which left the playback
\* cells at pl, ct, ip, yp and ready and made the calls cmds on the widget.
\* A render applies every queued update: none is pending after it.  Only a
\* mounted component renders; isYouTubeAPIReady is set by callbacks that run
\* when window.YT exists.
RenderEffects(pl, ct, ip, yp, ready, cmds) ==
    /\ route = "/pomodoro"
    /\ loaded' = <<>>
    /\ windowYT' = IF ready THEN "defined" ELSE windowYT
    /\ youtubePlaylist' = pl
    /\ currentTrack' = ct
    /\ youtubePlayer' = yp
    /\ isYouTubeAPIReady' = ready
    /\ isPlaying' = AutoplayIsPlaying(pl, ip, yp, settings', timer')
    /\ commands' = cmds \o VolumeEffect(yp, settings')
                        \o AutoplayCommands(pl, yp, settings', timer')
    /\ widget' = WidgetRun(InitPlayerEffect(pl, ct, ip, yp, ready, settings'),
                           commands')
    /\ interval' = TimerEffect(timer.isActive, interval, timer', settings')
    /\ storage' = Saved(todos', settings', timer', pl)
    /\ UNCHANGED <<sandbox, route, orphans>>

\* The effects of the render that follows a handler which sets no playback
\* cell, calls nothing on the widget and shows no alert.
Effects ==
    /\ RenderEffects(youtubePlaylist, currentTrack, isPlaying, youtubePlayer,
                     isYouTubeAPIReady, <<>>)
    /\ UNCHANGED pendingPlays
    /\ alerted' = <<>>

---------------------------------------------------------------------------
(* Notifications. *)

\* showNotification, called from a closure whose settings object is cs.
showNotification(cs, title) ==
    IF cs.notificationsEnabled /\ permission = "granted" THEN <<title>> ELSE <<>>

---------------------------------------------------------------------------
(* Strings of the form fields: sequences of one-character strings over     *)
(* printable ASCII, tab, line feed, carriage return and form feed.          *)

\* The characters of that alphabet that are white space or line terminators
\* to String.prototype.trim and parseInt.
WhiteSpace == {" ", "\t", "\n", "\r", "\f"}

RECURSIVE TrimStart(_)
TrimStart(str) ==
    IF str # <<>> /\ Head(str) \in WhiteSpace THEN TrimStart(Tail(str)) ELSE str

RECURSIVE TrimEnd(_)
TrimEnd(str) ==
    IF str # <<>> /\ str[Len(str)] \in WhiteSpace
    THEN TrimEnd(SubSeq(str, 1, Len(str) - 1)) ELSE str

\* String.prototype.trim
Trim(str) == TrimEnd(TrimStart(str))

---------------------------------------------------------------------------
(* Task list. *)

\* The todo with the given id is in the list.
HasTodo(td, id) == \E i \in 1..Len(td) : td[i].id = id

\* todos.filter(todo => todo.id !== id)
RECURSIVE FilterOut(_, _)
FilterOut(td, id) ==
    IF td = <<>> THEN <<>>
    ELSE IF Head(td).id # id THEN <<Head(td)>> \o FilterOut(Tail(td), id)
    ELSE FilterOut(Tail(td), id)

\* The object literal of addTodo.
NewTodo(id, title, estimate) ==
    [id |-> id,
     title |-> Trim(title),
     estimatedPomodoros |-> estimate,
     completedPomodoros |-> 0,
     isCompleted |-> FALSE]

\* Mutant: the title is tested before it is trimmed.
addTodo_TestsUntrimmed(td, id, title, estimate) ==
    IF title # <<>> THEN Append(td, NewTodo(id, title, estimate)) ELSE td

\* addTodo: [...todos, newTodo] when the trimmed title is not empty.
addTodo(td, id, title, estimate) ==
    IF Trim(title) # <<>> THEN Append(td, NewTodo(id, title, estimate)) ELSE td

\* toggleTodoComplete: the map over todos.
toggleTodoComplete(td, id) ==
    [i \in 1..Len(td) |->
        IF td[i].id = id THEN [td[i] EXCEPT !.isCompleted = ~@] ELSE td[i]]

\* startEditingTask: the three cells of the editor after the call.
startEditingTask(task) == <<task.id, task.title, task.estimatedPomodoros>>

\* cancelTaskEdit: the three cells of the editor after the call.
cancelTaskEdit == <<Null, <<>>, DefaultEstimate>>

\* The early return of saveTaskEdit.
SaveTaskEditReturns(id, title) == id = Null \/ Trim(title) = <<>>

\* Mutant: the edit builds the task afresh, with no completed pomodoro.
saveTaskEdit_ResetsCompleted(td, id, title, pomodoros) ==
    [i \in 1..Len(td) |->
        IF td[i].id = id
        THEN Spread(td[i], [title |-> Trim(title), estimatedPomodoros |-> pomodoros,
                            completedPomodoros |-> 0])
        ELSE td[i]]

\* saveTaskEdit: the map over todos.
saveTaskEdit(td, id, title, pomodoros) ==
    [i \in 1..Len(td) |->
        IF td[i].id = id
        THEN Spread(td[i], [title |-> Trim(title), estimatedPomodoros |-> pomodoros])
        ELSE td[i]]

\* The row of a task is rendered in editing mode.
EditingRow(todo, id) == id = todo.id

\* disabled={editingTaskId !== null} of the Edit buttons.
EditDisabled(id) == id # Null

\* Mutant: the map forgets the test on the id.
CompletePomodoro_EveryTodo(td, id) ==
    [i \in 1..Len(td) |-> [td[i] EXCEPT !.completedPomodoros = @ + 1]]

\* The setTodos updater of the expiry branch: the map over prevTodos.
CompletePomodoro(td, id) ==
    [i \in 1..Len(td) |->
        IF td[i].id = id
        THEN [td[i] EXCEPT !.completedPomodoros = @ + 1] ELSE td[i]]

\* setTimer(prev => ({ ...prev, currentTaskId: null, isActive: false }))
ClearCurrentTask(prev) == Spread(prev, [currentTaskId |-> Null, isActive |-> FALSE])

\* Mutant: the current task is cleared but the timer keeps running.
deleteTodoTimer_KeepsRunning(tm, id) ==
    IF tm.currentTaskId = id THEN Spread(tm, [currentTaskId |-> Null]) ELSE tm

\* deleteTodo: the timer after the call.
deleteTodoTimer(tm, id) ==
    IF tm.currentTaskId = id THEN ClearCurrentTask(tm) ELSE tm

\* Mutant: the current task is cleared but the timer keeps running.
clearAllTasksTimer_KeepsRunning(tm) ==
    IF tm.currentTaskId # Null THEN Spread(tm, [currentTaskId |-> Null]) ELSE tm

\* clearAllTasks: the timer after a confirmed call.
clearAllTasksTimer(tm) ==
    IF tm.currentTaskId # Null THEN ClearCurrentTask(tm) ELSE tm

---------------------------------------------------------------------------
(* Timer handlers: the timer object each of them sets. *)

startPomodoroForTask(st, taskId) ==
    [minutes |-> st.workDuration,
     seconds |-> 0,
     isActive |-> TRUE,
     isBreak |-> FALSE,
     currentTaskId |-> taskId]

\* Mutant: Start / Pause also rewinds the seconds.
toggleTimer_RewindsSeconds(prev) ==
    Spread(prev, [isActive |-> ~prev.isActive, seconds |-> 0])

toggleTimer(prev) == Spread(prev, [isActive |-> ~prev.isActive])

\* Mutant: Reset keeps the seconds.
resetTimer_KeepsSeconds(tm, st) ==
    [minutes |-> IF tm.isBreak THEN st.breakDuration ELSE st.workDuration,
     seconds |-> tm.seconds,
     isActive |-> FALSE,
     isBreak |-> tm.isBreak,
     currentTaskId |-> tm.currentTaskId]

resetTimer(tm, st) ==
    [minutes |-> IF tm.isBreak THEN st.breakDuration ELSE st.workDuration,
     seconds |-> 0,
     isActive |-> FALSE,
     isBreak |-> tm.isBreak,
     currentTaskId |-> tm.currentTaskId]

\* Mutant: the switch takes the duration of the kind it leaves.
switchMode_OldKindDuration(tm, st) ==
    LET newIsBreak == ~tm.isBreak
        newMinutes == IF tm.isBreak THEN st.breakDuration ELSE st.workDuration
    IN  [minutes |-> newMinutes,
         seconds |-> 0,
         isActive |-> FALSE,
         isBreak |-> newIsBreak,
         currentTaskId |-> IF newIsBreak THEN Null ELSE tm.currentTaskId]

switchMode(tm, st) ==
    LET newIsBreak == ~tm.isBreak
        newMinutes == IF newIsBreak THEN st.breakDuration ELSE st.workDuration
    IN  [minutes |-> newMinutes,
         seconds |-> 0,
         isActive |-> FALSE,
         isBreak |-> newIsBreak,
         currentTaskId |-> IF newIsBreak THEN Null ELSE tm.currentTaskId]

\* Mutant: the switch-mode button is never disabled.
SwitchModeDisabled_Never(tm) == FALSE

\* disabled={timer.isActive} of the switch-mode button.
SwitchModeDisabled(tm) == tm.isActive

\* Mutant: the Start Pomodoro button is rendered for completed tasks too.
StartPomodoroOffered_CompletedToo(todo, tm) == ~tm.isActive

\* The Start Pomodoro button of a task: rendered when the task is not
\* completed, disabled={timer.isActive}.
StartPomodoroOffered(todo, tm) == ~todo.isCompleted /\ ~tm.isActive

\* updateSettings: the settings after the merge.
updateSettingsMerge(prev, newSettings) == Spread(prev, newSettings)

\* updateSettings: the timer after the call.
updateSettingsTimer(tm, st, newSettings) ==
    IF ~tm.isActive
    THEN Spread(tm,
           [minutes |->
              IF tm.isBreak
              THEN FieldOr(newSettings, "breakDuration", st.breakDuration)
              ELSE FieldOr(newSettings, "workDuration", st.workDuration)])
    ELSE tm

---------------------------------------------------------------------------
(* The interval callback.  cs is the settings object its closure captured. *)

\* The timer has reached 00:00: the callback takes the "Timer finished" branch.
Expired(prev) == ~(prev.seconds > 0) /\ ~(prev.minutes > 0)

\* Mutant: the expiry branch forgets to flip isBreak.
tickTimer_KeepsKind(prev, cs) ==
    IF prev.seconds > 0 THEN Spread(prev, [seconds |-> prev.seconds - 1])
    ELSE IF prev.minutes > 0
    THEN Spread(prev, [minutes |-> prev.minutes - 1, seconds |-> BorrowSeconds])
    ELSE Spread(prev, [minutes |-> IF prev.isBreak THEN cs.breakDuration
                                   ELSE cs.workDuration,
                       seconds |-> 0,
                       isActive |-> FALSE])

\* Mutant: the expiry branch leaves isActive as it is: sessions chain.
tickTimer_AutoChains(prev, cs) ==
    IF prev.seconds > 0 THEN Spread(prev, [seconds |-> prev.seconds - 1])
    ELSE IF prev.minutes > 0
    THEN Spread(prev, [minutes |-> prev.minutes - 1, seconds |-> BorrowSeconds])
    ELSE Spread(prev, [minutes |-> IF ~prev.isBreak THEN cs.breakDuration
                                   ELSE cs.workDuration,
                       seconds |-> 0,
                       isBreak |-> ~prev.isBreak])

\* Mutant: the borrow sets the seconds to 60.
tickTimer_BorrowsSixty(prev, cs) ==
    IF prev.seconds > 0 THEN Spread(prev, [seconds |-> prev.seconds - 1])
    ELSE IF prev.minutes > 0
    THEN Spread(prev, [minutes |-> prev.minutes - 1, seconds |-> BorrowSeconds + 1])
    ELSE LET newIsBreak == ~prev.isBreak
             newMinutes == IF newIsBreak THEN cs.breakDuration ELSE cs.workDuration
         IN  Spread(prev, [minutes |-> newMinutes,
                           seconds |-> 0,
                           isActive |-> FALSE,
                           isBreak |-> newIsBreak])

\* The value returned by the setTimer updater.
tickTimer(prev, cs) ==
    IF prev.seconds > 0 THEN Spread(prev, [seconds |-> prev.seconds - 1])
    ELSE IF prev.minutes > 0
    THEN Spread(prev, [minutes |-> prev.minutes - 1, seconds |-> BorrowSeconds])
    ELSE LET newIsBreak == ~prev.isBreak
             newMinutes == IF newIsBreak THEN cs.breakDuration ELSE cs.workDuration
         IN  Spread(prev, [minutes |-> newMinutes,
                           seconds |-> 0,
                           isActive |-> FALSE,
                           isBreak |-> newIsBreak])

\* The todos after the callback.
tickTodos(prev, td) ==
    IF Expired(prev) /\ ~prev.isBreak /\ prev.currentTaskId # Null
    THEN CompletePomodoro(td, prev.currentTaskId) ELSE td

\* The notifications the callback creates.
tickNotifications(prev, cs) ==
    IF ~Expired(prev) THEN <<>>
    ELSE IF ~prev.isBreak /\ prev.currentTaskId # Null
    THEN showNotification(cs, "Pomodoro Complete!")
    ELSE IF prev.isBreak THEN showNotification(cs, "Break Over!")
    ELSE <<>>

---------------------------------------------------------------------------
(* parseInt on the value of a number input. *)

Digits == <<"0", "1", "2", "3", "4", "5", "6", "7", "8", "9">>

IsDigit(c) == \E d \in 1..Len(Digits) : Digits[d] = c

DigitValue(c) == (CHOOSE d \in 1..Len(Digits) : Digits[d] = c) - 1

\* The value of the longest prefix of digits of str, read after acc.
RECURSIVE ParseDigits(_, _)
ParseDigits(str, acc) ==
    IF str # <<>> /\ IsDigit(Head(str))
    THEN ParseDigits(Tail(str), 10 * acc + DigitValue(Head(str)))
    ELSE acc

\* parseInt(str): <<n>>, or <<>> for NaN.  Leading blanks are skipped, a sign
\* is read, then the longest prefix of digits; NaN when there is no digit.
ParseInt(str) ==
    LET s1 == TrimStart(str)
        neg == s1 # <<>> /\ Head(s1) = "-"
        s2 == IF s1 # <<>> /\ Head(s1) \in {"-", "+"} THEN Tail(s1) ELSE s1
    IN  IF s2 = <<>> \/ ~IsDigit(Head(s2)) THEN <<>>
        ELSE <<IF neg THEN 0 - ParseDigits(s2, 0) ELSE ParseDigits(s2, 0)>>

\* parseInt(str) || dflt: NaN and 0 are falsy.
ParseIntOr(str, dflt) ==
    IF ParseInt(str) = <<>> \/ ParseInt(str)[1] = 0 THEN dflt ELSE ParseInt(str)[1]

\* onChange of the estimate field of the task form: the value of
\* newTodoPomodoros.
NewTodoPomodorosUpdate(raw) == ParseIntOr(raw, DefaultEstimate)

\* onChange of the work duration input.
WorkDurationUpdate(raw) == [workDuration |-> ParseIntOr(raw, DefaultWorkDuration)]

\* onChange of the break duration input.
BreakDurationUpdate(raw) == [breakDuration |-> ParseIntOr(raw, DefaultBreakDuration)]

---------------------------------------------------------------------------
(* Inputs of the handlers. *)

\* min of the two duration inputs.
MinDuration == 1

\* Values typed into a duration input in Spec: the numbers
\* MinDuration..MaxDuration.
DurationInputs == {<<Digits[d + 1]>> : d \in MinDuration..MaxDuration}

\* Values typed into a duration input in SpecTyped: those of Spec and a
\* negative number.  (The values that make the handler fall back to 25 or 5
\* minutes are left out of the specifications in which the timer ticks: a
\* 25 minute countdown is 1500 ticks.)
TypedDurationInputs == DurationInputs \cup {<<"-", "1">>}

\* Contents of the task title field when Add Task is pressed.
Titles == {<<"\t", "a", " ">>, <<" ", "\t">>, <<>>}

\* Values typed into the estimate field of the task form; <<>> is the
\* field emptied.
NewTodoPomodoros == {<<"2">>, <<>>}

\* Contents of the title field of the edit row when it is typed into.
EditedTitles == {<<"b", "\t">>, <<"\t", " ">>}

\* Values typed into the estimate field of the edit row.
EditedPomodoros == {<<"2">>, <<>>}

\* A localStorage left by an earlier visit in which the user set the two
\* durations while the timer was idle and did nothing else.
EarlierVisit(w, b) ==
    Saved(<<>>,
          Spread(DefaultSettings, [workDuration |-> w, breakDuration |-> b]),
          Spread(DefaultTimer, [minutes |-> w]),
          <<>>)

\* A localStorage left by an earlier visit in which the user set the two
\* durations while the timer was idle and added one task.
EarlierVisitTask(w, b) ==
    Saved(<<NewTodo(1, <<"a">>, DefaultEstimate)>>,
          Spread(DefaultSettings, [workDuration |-> w, breakDuration |-> b]),
          Spread(DefaultTimer, [minutes |-> w]),
          <<>>)

\* A localStorage left by an earlier visit in which the user set the two
\* durations to MinDuration, added one task, started a Focus session for it
\* and paused it at 0:01.
EarlierVisitPaused ==
    Saved(<<NewTodo(1, <<"a">>, DefaultEstimate)>>,
          Spread(DefaultSettings, [workDuration |-> MinDuration,
                                   breakDuration |-> MinDuration]),
          Spread(startPomodoroForTask(DefaultSettings, 1),
                 [minutes |-> 0, seconds |-> 1, isActive |-> FALSE]),
          <<>>)

\* The localStorage of EarlierVisitPaused after its pomodoro-todos slot was
\* removed or overwritten from outside the component: slot is what getItem
\* finds there.
EarlierVisitLostTodos(slot) == [EarlierVisitPaused EXCEPT !.todos = slot]

---------------------------------------------------------------------------
(* The Moment.js sandbox (Home). *)

\* Number of calls of executeCode in a visit.
MaxRuns == 3
\* Number of timeouts of handleEditorDidMount pending at one time.
MaxMountRuns == 2

\* Texts of the editor, as sequences of pieces of text.  DefaultCode and
\* ExampleCode are loaded by the Reset button and an example button; the
\* others are typed.
DefaultCode == <<"DEFAULT_CODE">>
ExampleCode == <<"EXAMPLES[0].code">>
LateThrowCode == <<"await new Promise(r => setTimeout(r, 2000));", " ",
                   "throw new Error('late');">>
LateReturnCode == <<"console.log('start');", " ",
                    "await new Promise(r => setTimeout(r, 2000));", " ",
                    "return 1;">>
SyntaxErrorCode == <<"return (">>
BareThrowCode == <<"throw '';">>
BlankCode == <<"\t", " ", "\n">>

\* The texts typed into the editor; <<>> is the editor emptied.
TypedCodes ==
    {LateThrowCode, LateReturnCode, SyntaxErrorCode, BareThrowCode, BlankCode,
     <<>>}

\* new AsyncFunction('moment', c) returns a function.
ScriptParses(c) == c # SyntaxErrorCode

\* The function made from c reaches an await of a promise that is settled
\* by a later task.
ScriptAwaits(c) == c \in {LateThrowCode, LateReturnCode}

\* The function made from c throws.
ScriptThrows(c) == c \in {LateThrowCode, BareThrowCode}

\* The lines the function made from c passes to console.log before its
\* first await.
ScriptLogs(c) ==
    IF c = DefaultCode THEN <<"Current time", "Tokyo time", "Tomorrow">>
    ELSE IF c = ExampleCode THEN <<"ISO", "Unix">>
    ELSE IF c = LateReturnCode THEN <<"start">>
    ELSE <<>>

\* The value the function made from c returns, as the Result panel shows
\* it: DEFAULT_CODE returns an object literal, EXAMPLES[0].code the string
\* now.format('LLLL').
ScriptValue(c) ==
    IF c = DefaultCode THEN "object"
    ELSE IF c = ExampleCode THEN "LLLL"
    ELSE IF c = LateReturnCode THEN "1"
    ELSE "undefined"

\* err.message || 'Execution error': the message of the SyntaxError is the
\* engine's (V8's here: the text is wrapped in a function body, so the parser
\* meets its closing brace); a thrown '' has no message.
ErrorMessage(c) ==
    IF ~ScriptParses(c) THEN "Unexpected token '}'"
    ELSE IF c = BareThrowCode THEN "Execution error"
    ELSE "late"

\* useState defaults of Home, no timeout set, console.log untouched.
HomeUnmounted ==
    /\ code = DefaultCode
    /\ output = <<>>
    /\ result = <<>>
    /\ error = ""
    /\ editorRef = FALSE
    /\ consoleLog = "native"
    /\ executions = {}
    /\ autoRun = <<>>
    /\ mountRun = <<>>
    /\ runs = 0

\* The end of executeCode for the execution e: the lines after the await.
\* The setters of a Home that is no longer mounted change nothing.
FinishExecution(e) ==
    /\ e \in executions
    /\ IF ~e.live
       THEN UNCHANGED <<output, result, error>>
       ELSE IF ScriptThrows(e.code)
       THEN /\ error' = ErrorMessage(e.code)
            /\ UNCHANGED <<output, result>>
       ELSE /\ output' = e.logs
            /\ result' = <<ScriptValue(e.code)>>
            /\ UNCHANGED error
    /\ consoleLog' = e.originalLog
    /\ executions' = executions \ {e}
    /\ UNCHANGED <<code, editorRef, autoRun, mountRun, runs>>
    /\ UNCHANGED <<pomodoro, route>>

\* executeCode of a render whose code is c, up to its first suspension: a
\* text that does not parse and a function that awaits nothing settled by a
\* later task run to the end of executeCode before any other task.  live
\* tells whether the Home of that render is still mounted.
executeCode(c, live) ==
    /\ runs < MaxRuns
    /\ runs' = runs + 1
    /\ IF ~ScriptParses(c) \/ (ScriptThrows(c) /\ ~ScriptAwaits(c))
       THEN /\ error' = IF live THEN ErrorMessage(c) ELSE error
            /\ output' = IF live THEN <<>> ELSE output
            /\ result' = IF live THEN <<>> ELSE result
            /\ UNCHANGED <<consoleLog, executions>>
       ELSE IF ~ScriptAwaits(c)
       THEN /\ error' = IF live THEN "" ELSE error
            /\ output' = IF live THEN ScriptLogs(c) ELSE output
            /\ result' = IF live THEN <<ScriptValue(c)>> ELSE result
            /\ UNCHANGED <<consoleLog, executions>>
       ELSE /\ error' = IF live THEN "" ELSE error
            /\ output' = IF live THEN <<>> ELSE output
            /\ result' = IF live THEN <<>> ELSE result
            /\ consoleLog' = <<runs + 1>>
            /\ executions' = executions \cup
                   {[id |-> runs + 1, code |-> c, originalLog |-> consoleLog,
                     logs |-> ScriptLogs(c), live |-> live]}

\* The auto-execute effect after setCode(c): when the code changed, the
\* timeout of the previous render is cleared and a new one is set.
AutoExecuteEffect(c) == IF c # code THEN <<c>> ELSE autoRun

\* Run Code pressed.
RunCode ==
    /\ route = "/home"
    /\ executeCode(code, TRUE)
    /\ UNCHANGED <<code, editorRef, autoRun, mountRun>>
    /\ UNCHANGED <<pomodoro, route>>

\* An example button or Reset pressed: loadExample(c).
LoadExample(c) ==
    /\ route = "/home"
    /\ code' = c
    /\ autoRun' = AutoExecuteEffect(c)
    /\ UNCHANGED <<output, result, error, editorRef, consoleLog, executions,
                   mountRun, runs>>
    /\ UNCHANGED <<pomodoro, route>>

\* The text c is typed into the editor: onChange.
CodeInput(c) ==
    /\ route = "/home"
    /\ editorRef
    /\ code' = c
    /\ autoRun' = AutoExecuteEffect(c)
    /\ UNCHANGED <<output, result, error, editorRef, consoleLog, executions,
                   mountRun, runs>>
    /\ UNCHANGED <<pomodoro, route>>

\* The editor has mounted: handleEditorDidMount.
EditorMounted ==
    /\ route = "/home"
    /\ ~editorRef
    /\ Len(mountRun) < MaxMountRuns
    /\ editorRef' = TRUE
    /\ mountRun' = Append(mountRun, [code |-> code, live |-> TRUE])
    /\ UNCHANGED <<code, output, result, error, consoleLog, executions,
                   autoRun, runs>>
    /\ UNCHANGED <<pomodoro, route>>

\* The timeout of the auto-execute effect fires.
AutoRunFires ==
    /\ autoRun # <<>>
    /\ autoRun' = <<>>
    /\ IF Trim(autoRun[1]) # <<>>
       THEN executeCode(autoRun[1], TRUE)
       ELSE UNCHANGED <<output, result, error, consoleLog, executions, runs>>
    /\ UNCHANGED <<code, editorRef, mountRun>>
    /\ UNCHANGED <<pomodoro, route>>

\* The timeout set by handleEditorDidMount fires.
MountRunFires ==
    /\ mountRun # <<>>
    /\ mountRun' = Tail(mountRun)
    /\ executeCode(mountRun[1].code, mountRun[1].live)
    /\ UNCHANGED <<code, editorRef, autoRun>>
    /\ UNCHANGED <<pomodoro, route>>

-------------------------------------------------------------------------------------------------------------------------------------------------
(* Mount.  The first render shows the useState defaults; its effects run in *)
(* the order of their declaration: the load effect reads the four slots and *)
(* queues the setters, loadYouTubeAPI queues setIsYouTubeAPIReady(true)     *)
(* when window.YT exists, and the four save effects write the defaults of   *)
(* that render.  The queued updates are applied by a second render, which   *)
(* React schedules as its own task.                                         *)

\* Whether the load effect over store queues any update.
LoadSets(store, ready) ==
    \/ ready
    \/ \E k \in DOMAIN store : store[k] # <<>> /\ store[k][1].ok

\* The component mounts over the localStorage store in a document in which
\* window.YT exists iff ready: the first render and its effects.  When
\* window.YT does not exist loadYouTubeAPI adds a script tag.
Mount(store, ready) ==
    /\ todos' = <<>>
    /\ settings' = DefaultSettings
    /\ timer' = DefaultTimer
    /\ interval' = <<>>
    /\ youtubePlaylist' = <<>>
    /\ storage' = Saved(todos', settings', timer', youtubePlaylist')
    /\ loaded' = IF LoadSets(store, ready)
                 THEN <<[store |-> store, apiReady |-> ready]>> ELSE <<>>
    /\ emitted' = <<>>
    /\ editingTaskId' = Null
    /\ editingTitle' = <<>>
    /\ editingPomodoros' = DefaultEstimate
    /\ currentTrack' = 0
    /\ isPlaying' = FALSE
    /\ youtubePlayer' = NoPlayer
    /\ isYouTubeAPIReady' = FALSE
    /\ windowYT' = IF ready THEN "defined" ELSE "loading"
    /\ widget' = <<>>
    /\ commands' = <<>>
    /\ alerted' = <<>>

\* The render of the updates the load effect queued, and its effects.
LoadedRender ==
    /\ loaded # <<>>
    /\ todos' = LoadedTodos(loaded[1].store)
    /\ settings' = LoadedSettings(loaded[1].store)
    /\ timer' = LoadedTimer(loaded[1].store)
    /\ RenderEffects(LoadedPlaylist(loaded[1].store), currentTrack, isPlaying,
                     youtubePlayer, loaded[1].apiReady, <<>>)
    /\ emitted' = <<>>
    /\ alerted' = <<>>
    /\ UNCHANGED editing
    /\ UNCHANGED <<permission, clock, pendingPlays>>

\* The state a mount over store leaves once the updates of the load effect
\* are rendered, as a predicate on the unprimed variables.
Mounted(store, ready) ==
    /\ todos = LoadedTodos(store)
    /\ settings = LoadedSettings(store)
    /\ timer = LoadedTimer(store)
    /\ interval = <<>>
    /\ youtubePlaylist = LoadedPlaylist(store)
    /\ storage = Saved(todos, settings, timer, youtubePlaylist)
    /\ loaded = <<>>
    /\ emitted = <<>>
    /\ editingTaskId = Null
    /\ editingTitle = <<>>
    /\ editingPomodoros = DefaultEstimate
    /\ currentTrack = 0
    /\ isPlaying = FALSE
    /\ youtubePlayer = NoPlayer
    /\ isYouTubeAPIReady = ready
    /\ widget = IF ready /\ Len(youtubePlaylist) > 0
                THEN <<[closure |-> [youtubePlaylist |-> youtubePlaylist,
                                     currentTrack |-> 0,
                                     isPlaying |-> FALSE,
                                     youtubePlayer |-> NoPlayer,
                                     settings |-> settings],
                        state |-> "cued"]>>
                ELSE <<>>
    /\ pendingPlays = <<>>
    /\ commands = <<>>
    /\ alerted = <<>>
    /\ windowYT = IF ready THEN "defined" ELSE "loading"
    /\ orphans = <<>>
    /\ route = "/pomodoro"
    /\ HomeUnmounted

---------------------------------------------------------------------------
(* Actions. *)

\* Number of callbacks of unmounted components pending at one time.
MaxOrphans == 2

\* A new document: no timeout, no widget and no call of executeCode of the
\* old one is left, and console.log is the native function.
NewDocument ==
    /\ pendingPlays' = <<>>
    /\ orphans' = <<>>
    /\ consoleLog' = "native"
    /\ executions' = {}
    /\ mountRun' = <<>>
    /\ UNCHANGED <<code, output, result, error, editorRef, autoRun, runs>>
    /\ UNCHANGED <<permission, clock, route>>

\* The page is reloaded, or closed and opened again: the component mounts in
\* a new document over the same localStorage.
Reload ==
    /\ route = "/pomodoro"
    /\ Mount(storage, FALSE)
    /\ NewDocument

\* What the callbacks of the component leave behind when it unmounts: the
\* delayed playMusic calls of nextTrack / previousTrack (no cleanup clears
\* them) and the onReady of a widget that has not reported yet.
Orphaned ==
    (IF widget # <<>> /\ youtubePlayer = NoPlayer
     THEN <<[kind |-> "onReady",
             youtubePlaylist |-> widget[1].closure.youtubePlaylist,
             youtubePlayer |-> PlayerHandle,
             settings |-> widget[1].closure.settings]>>
     ELSE <<>>)
    \o [i \in 1..Len(pendingPlays) |->
          [kind |-> "playMusic",
           youtubePlaylist |-> pendingPlays[i].youtubePlaylist,
           youtubePlayer |-> pendingPlays[i].youtubePlayer,
           settings |-> pendingPlays[i].settings]]

\* The Link to / of the tracker is followed: PomodoroTracker unmounts and
\* Index is shown.  The cleanup of the timer effect clears the interval and
\* the queued updates are dropped; the widget leaves the document with the
\* component.  localStorage keeps what the last render saved.  The cells of
\* an unmounted component do not exist: the model shows them at their
\* useState defaults.  The onStateChange of the widget that left calls the
\* nextTrack of the render that created it, in which youtubePlayer is null:
\* it calls nothing but setters of the unmounted component, and changes
\* nothing.
PomodoroToIndex ==
    /\ route = "/pomodoro"
    /\ route' = "/"
    /\ orphans' = orphans \o Orphaned
    /\ Len(orphans') <= MaxOrphans
    /\ todos' = <<>>
    /\ settings' = DefaultSettings
    /\ timer' = DefaultTimer
    /\ interval' = <<>>
    /\ youtubePlaylist' = <<>>
    /\ loaded' = <<>>
    /\ emitted' = <<>>
    /\ editingTaskId' = Null
    /\ editingTitle' = <<>>
    /\ editingPomodoros' = DefaultEstimate
    /\ currentTrack' = 0
    /\ isPlaying' = FALSE
    /\ youtubePlayer' = NoPlayer
    /\ isYouTubeAPIReady' = FALSE
    /\ widget' = <<>>
    /\ pendingPlays' = <<>>
    /\ commands' = <<>>
    /\ alerted' = <<>>
    /\ UNCHANGED <<storage, permission, clock, windowYT>>
    /\ UNCHANGED sandbox

\* The Link to /pomodoro of Index is followed: PomodoroTracker mounts in the
\* same document.
IndexToPomodoro ==
    /\ route = "/"
    /\ route' = "/pomodoro"
    /\ Mount(storage, windowYT = "defined")
    /\ UNCHANGED <<permission, clock, pendingPlays, orphans>>
    /\ UNCHANGED sandbox

\* The Link to /home of Index is followed: Home mounts.  The first render
\* shows the useState defaults and its auto-execute effect sets the timeout.
IndexToHome ==
    /\ route = "/"
    /\ route' = "/home"
    /\ code' = DefaultCode
    /\ output' = <<>>
    /\ result' = <<>>
    /\ error' = ""
    /\ editorRef' = FALSE
    /\ autoRun' = <<DefaultCode>>
    /\ UNCHANGED <<consoleLog, executions, mountRun, runs>>
    /\ UNCHANGED pomodoro

\* The Link to /pomodoro of Home is followed: Home unmounts and
\* PomodoroTracker mounts in the same document.  The cleanup of the
\* auto-execute effect clears its timeout.  console.log, the timeouts of
\* handleEditorDidMount and the calls of executeCode in flight outlive Home;
\* its setters change nothing from now on.  The cells of an unmounted
\* component do not exist: the model shows them at their useState defaults.
HomeToPomodoro ==
    /\ route = "/home"
    /\ route' = "/pomodoro"
    /\ code' = DefaultCode
    /\ output' = <<>>
    /\ result' = <<>>
    /\ error' = ""
    /\ editorRef' = FALSE
    /\ autoRun' = <<>>
    /\ mountRun' = [i \in 1..Len(mountRun) |->
                      [mountRun[i] EXCEPT !.live = FALSE]]
    /\ executions' = {[e EXCEPT !.live = FALSE] : e \in executions}
    /\ UNCHANGED <<consoleLog, runs>>
    /\ Mount(storage, windowYT = "defined")
    /\ UNCHANGED <<permission, clock, pendingPlays, orphans>>

\* What a callback of an unmounted component leaves alone: its setters
\* change nothing and nothing is rendered.
NoRender ==
    /\ emitted' = <<>>
    /\ alerted' = <<>>
    /\ UNCHANGED <<todos, timer, settings, interval, permission, storage, clock>>
    /\ UNCHANGED editing
    /\ UNCHANGED <<youtubePlaylist, currentTrack, isPlaying, youtubePlayer,
                   isYouTubeAPIReady, widget, pendingPlays, loaded>>
    /\ UNCHANGED <<sandbox, route>>

\* The callback at position i of orphans runs: a delayed playMusic call is
\* the playMusic of the render that scheduled it and calls playVideo on the
\* widget of that component; onReady calls setVolume on its widget.  The
\* delayed calls fire in the order in which they were scheduled.
OrphanRuns(i) ==
    /\ i \in 1..Len(orphans)
    /\ orphans[i].kind = "playMusic" =>
          \A j \in 1..(i - 1) : orphans[j].kind # "playMusic"
    /\ LET c == orphans[i]
       IN  commands' =
             IF c.kind = "onReady"
             THEN <<[call |-> "setVolume", volume |-> WidgetVolume(c.settings)]>>
             ELSE IF PlayMusicActs(c.youtubePlaylist, c.youtubePlayer, c.settings)
             THEN <<[call |-> "playVideo"]>>
             ELSE <<>>
    /\ orphans' = SubSeq(orphans, 1, i - 1) \o SubSeq(orphans, i + 1, Len(orphans))
    /\ UNCHANGED windowYT
    /\ NoRender

\* The names of the four slots.
SlotNames == {"todos", "settings", "timer", "playlist"}

\* The localStorage store after the slots named in damaged were overwritten,
\* from outside the component, with text that is not JSON.
Damage(store, damaged) ==
    [k \in DOMAIN store |-> IF k \in damaged THEN Malformed ELSE store[k]]

\* The page is reloaded after the slots named in damaged were overwritten
\* with text that is not JSON.
ReloadDamaged(damaged) ==
    /\ route = "/pomodoro"
    /\ Mount(Damage(storage, damaged), FALSE)
    /\ NewDocument

\* Add Task pressed with the given title; the estimate field holds estimate.
AddTodo(title, estimate) ==
    /\ clock < MaxTasks
    /\ todos' = addTodo(todos, clock + 1, title, estimate)
    /\ clock' = IF todos' # todos THEN clock + 1 ELSE clock
    /\ emitted' = <<>>
    /\ UNCHANGED <<timer, settings, permission>>
    /\ UNCHANGED editing
    /\ Effects

\* Delete pressed on the task with the given id (a row in display mode).
DeleteTodo(id) ==
    /\ HasTodo(todos, id)
    /\ editingTaskId # id
    /\ todos' = FilterOut(todos, id)
    /\ timer' = deleteTodoTimer(timer, id)
    /\ emitted' = <<>>
    /\ UNCHANGED <<settings, permission, clock>>
    /\ UNCHANGED editing
    /\ Effects

\* The checkbox of the task with the given id is clicked.
ToggleTodoComplete(id) ==
    /\ HasTodo(todos, id)
    /\ todos' = toggleTodoComplete(todos, id)
    /\ emitted' = <<>>
    /\ UNCHANGED <<timer, settings, permission, clock>>
    /\ UNCHANGED editing
    /\ Effects

\* setEditingTaskId, setEditingTitle and setEditingPomodoros with the three
\* values of cells.
SetEditing(cells) ==
    /\ editingTaskId' = cells[1]
    /\ editingTitle' = cells[2]
    /\ editingPomodoros' = cells[3]

\* Edit pressed on the task at position i (a row in display mode).
StartEditingTask(i) ==
    /\ i \in 1..Len(todos)
    /\ ~EditDisabled(editingTaskId)
    /\ SetEditing(startEditingTask(todos[i]))
    /\ emitted' = <<>>
    /\ UNCHANGED <<todos, timer, settings, permission, clock>>
    /\ Effects

\* A title is typed into the title field of the row in editing mode.
EditingTitleInput(text) ==
    /\ \E i \in 1..Len(todos) : EditingRow(todos[i], editingTaskId)
    /\ editingTitle' = text
    /\ emitted' = <<>>
    /\ UNCHANGED <<todos, timer, settings, permission, clock,
                   editingTaskId, editingPomodoros>>
    /\ Effects

\* A value is typed into the estimate field of the row in editing mode.
EditingPomodorosInput(raw) ==
    /\ \E i \in 1..Len(todos) : EditingRow(todos[i], editingTaskId)
    /\ editingPomodoros' = ParseIntOr(raw, DefaultEstimate)
    /\ emitted' = <<>>
    /\ UNCHANGED <<todos, timer, settings, permission, clock,
                   editingTaskId, editingTitle>>
    /\ Effects

\* Save pressed in the row in editing mode.
SaveTaskEdit ==
    /\ \E i \in 1..Len(todos) : EditingRow(todos[i], editingTaskId)
    /\ IF SaveTaskEditReturns(editingTaskId, editingTitle)
       THEN UNCHANGED <<todos, editing>>
       ELSE /\ todos' = saveTaskEdit(todos, editingTaskId, editingTitle,
                                     editingPomodoros)
            /\ SetEditing(cancelTaskEdit)
    /\ emitted' = <<>>
    /\ UNCHANGED <<timer, settings, permission, clock>>
    /\ Effects

\* Cancel pressed in the row in editing mode.
CancelTaskEdit ==
    /\ \E i \in 1..Len(todos) : EditingRow(todos[i], editingTaskId)
    /\ SetEditing(cancelTaskEdit)
    /\ emitted' = <<>>
    /\ UNCHANGED <<todos, timer, settings, permission, clock>>
    /\ Effects

\* Clear All pressed (rendered when todos.length > 0); confirmed is the
\* answer of window.confirm.
ClearAllTasks(confirmed) ==
    /\ Len(todos) > 0
    /\ todos' = IF confirmed THEN <<>> ELSE todos
    /\ timer' = IF confirmed THEN clearAllTasksTimer(timer) ELSE timer
    /\ emitted' = <<>>
    /\ UNCHANGED <<settings, permission, clock>>
    /\ UNCHANGED editing
    /\ Effects

\* Start Pomodoro pressed on the task at position i.
StartPomodoro(i) ==
    /\ i \in 1..Len(todos)
    /\ ~EditingRow(todos[i], editingTaskId)
    /\ StartPomodoroOffered(todos[i], timer)
    /\ timer' = startPomodoroForTask(settings, todos[i].id)
    /\ emitted' = <<>>
    /\ UNCHANGED <<todos, settings, permission, clock>>
    /\ UNCHANGED editing
    /\ Effects

\* Start / Pause pressed.
ToggleTimer ==
    /\ timer' = toggleTimer(timer)
    /\ emitted' = <<>>
    /\ UNCHANGED <<todos, settings, permission, clock>>
    /\ UNCHANGED editing
    /\ Effects

\* Reset pressed.
ResetTimer ==
    /\ timer' = resetTimer(timer, settings)
    /\ emitted' = <<>>
    /\ UNCHANGED <<todos, settings, permission, clock>>
    /\ UNCHANGED editing
    /\ Effects

\* The switch-mode button pressed.
SwitchMode ==
    /\ ~SwitchModeDisabled(timer)
    /\ timer' = switchMode(timer, settings)
    /\ emitted' = <<>>
    /\ UNCHANGED <<todos, settings, permission, clock>>
    /\ UNCHANGED editing
    /\ Effects

\* updateSettings(newSettings)
UpdateSettings(newSettings) ==
    /\ settings' = updateSettingsMerge(settings, newSettings)
    /\ timer' = updateSettingsTimer(timer, settings, newSettings)
    /\ emitted' = <<>>
    /\ UNCHANGED <<todos, permission, clock>>
    /\ UNCHANGED editing
    /\ Effects

\* The interval callback fires.
Tick ==
    /\ interval # <<>>
    /\ todos' = tickTodos(timer, todos)
    /\ \A i \in 1..Len(todos') : todos'[i].completedPomodoros <= MaxCompleted
    /\ timer' = tickTimer(timer, interval[1])
    /\ emitted' = tickNotifications(timer, interval[1])
    /\ UNCHANGED <<settings, permission, clock>>
    /\ UNCHANGED editing
    /\ Effects

\* The notifications checkbox is clicked: e.target.checked is the opposite of
\* the checked attribute.
NotificationsInput ==
    UpdateSettings([notificationsEnabled |-> ~settings.notificationsEnabled])

\* The user answers the permission prompt that Notification.requestPermission
\* opened at mount.
PermissionAnswer(answer) ==
    /\ permission = "default"
    /\ permission' = answer
    /\ emitted' = <<>>
    /\ UNCHANGED <<todos, timer, settings, interval, storage, clock>>
    /\ UNCHANGED editing
    /\ UNCHANGED <<youtubePlaylist, currentTrack, isPlaying, youtubePlayer,
                   isYouTubeAPIReady, widget, pendingPlays, loaded,
                   windowYT, orphans>>
    /\ commands' = <<>>
    /\ alerted' = <<>>
    /\ UNCHANGED <<sandbox, route>>

\* A value is typed into the work duration input.
WorkDurationInput(raw) == UpdateSettings(WorkDurationUpdate(raw))

\* A value is typed into the break duration input.
BreakDurationInput(raw) == UpdateSettings(BreakDurationUpdate(raw))

---------------------------------------------------------------------------
(* The playlist. *)

\* Number of tracks that are ever added (values of the clock) in SpecExtract.
MaxTracks == 3
\* Number of tracks that are ever added in the specifications with a widget.
MaxPlaylist == 2
\* Number of delayed playMusic calls that are pending at a time.
MaxPendingPlays == 1

\* Mutant: the captured identifier does not end at an ampersand.
StopChars_NoAmpersand == {"\n", "?", "#"}

\* [^&\n?#]: the characters that end the captured identifier.
StopChars == {"&", "\n", "?", "#"}

\* The literal text in front of the capture group, per pattern and, within a
\* pattern, per alternative, both in the order of the source.
Patterns ==
    << <<
        <<"y", "o", "u", "t", "u", "b", "e", ".", "c", "o", "m", "/", "w", "a",
      "t", "c", "h", "?", "v", "=">>,
        <<"y", "o", "u", "t", "u", ".", "b", "e", "/">>
    >>, <<
        <<"y", "o", "u", "t", "u", "b", "e", ".", "c", "o", "m", "/", "e", "m",
      "b", "e", "d", "/">>
    >>, <<
        <<"y", "o", "u", "t", "u", "b", "e", ".", "c", "o", "m", "/", "v", "/">>
    >> >>

\* The literal lit followed by at least one captured character matches url
\* at position i.
MatchesAt(url, lit, i) ==
    /\ i + Len(lit) <= Len(url)
    /\ SubSeq(url, i, i + Len(lit) - 1) = lit
    /\ url[i + Len(lit)] \notin StopChars

\* url.match(pattern)[1] for the pattern with the alternatives alts, or <<>>
\* when match returns null: the match starts at the leftmost position where
\* an alternative matches, takes the first such alternative and captures the
\* longest run of characters outside StopChars.
MatchGroup(url, alts) ==
    LET starts == {i \in 1..Len(url) :
                      \E a \in 1..Len(alts) : MatchesAt(url, alts[a], i)}
    IN  IF starts = {} THEN <<>>
        ELSE LET i == CHOOSE x \in starts : \A y \in starts : x <= y
                 hits == {a \in 1..Len(alts) : MatchesAt(url, alts[a], i)}
                 a == CHOOSE x \in hits : \A y \in hits : x <= y
                 from == i + Len(alts[a])
                 stops == {j \in from..Len(url) : url[j] \in StopChars}
                 to == IF stops = {} THEN Len(url)
                       ELSE (CHOOSE x \in stops : \A y \in stops : x <= y) - 1
             IN  SubSeq(url, from, to)

\* extractVideoId(url): the capture of the first pattern that matches, or
\* <<>> for null.
extractVideoId(url) ==
    LET hits == {p \in 1..Len(Patterns) : MatchGroup(url, Patterns[p]) # <<>>}
    IN  IF hits = {} THEN <<>>
        ELSE MatchGroup(url, Patterns[CHOOSE x \in hits : \A y \in hits : x <= y])

\* `YouTube Video ${videoId}`
TrackTitle(videoId) ==
    <<"Y", "o", "u", "T", "u", "b", "e", " ", "V", "i", "d", "e", "o", " ">> \o videoId

\* The track addYouTubeTrack creates at time now.
NewTrack(now, videoId, url) ==
    [id |-> now, title |-> TrackTitle(videoId), videoId |-> videoId, url |-> url]

\* Mutant: addYouTubeTrack looks at every URL.
AddYouTubeTrackReturns_Never(url) == FALSE

\* addYouTubeTrack returns before it looks at the URL.
AddYouTubeTrackReturns(url) == Trim(url) = <<>>

\* The playlist after addYouTubeTrack with newYoutubeUrl = url at time now.
addYouTubeTrack(pl, now, url) ==
    IF AddYouTubeTrackReturns(url) \/ extractVideoId(url) = <<>> THEN pl
    ELSE Append(pl, NewTrack(now, extractVideoId(url), url))

\* The alerts addYouTubeTrack shows.
addYouTubeTrackAlerts(url) ==
    IF ~AddYouTubeTrackReturns(url) /\ extractVideoId(url) = <<>>
    THEN <<"Please enter a valid YouTube URL">>
    ELSE <<>>

\* prev.filter(track => track.id !== trackId)
removeTrack(pl, id) == SelectSeq(pl, LAMBDA track : track.id # id)

\* currentTrack after removeTrack, called in a render whose cells are pl, ct.
removeTrackCurrent(pl, ct) ==
    IF Len(pl) <= 1 THEN 0
    ELSE IF ct >= Len(pl) - 1 THEN 0 ELSE ct

\* currentTrack after nextTrack, called in a render whose cells are pl, ct.
nextTrack(pl, ct) ==
    IF Len(pl) = 0 THEN ct ELSE (ct + 1) % Len(pl)

\* currentTrack after previousTrack.
previousTrack(pl, ct) ==
    IF Len(pl) = 0 THEN ct
    ELSE IF ct = 0 THEN Len(pl) - 1 ELSE ct - 1

\* The calls nextTrack and previousTrack make on the widget, newTrack being
\* the position they moved to.
TrackCommands(pl, newTrack, yp) ==
    IF Len(pl) > 0 /\ yp # NoPlayer /\ newTrack + 1 \in 1..Len(pl)
    THEN <<[call |-> "loadVideoById", videoId |-> pl[newTrack + 1].videoId]>>
    ELSE <<>>

\* The delayed playMusic calls nextTrack and previousTrack schedule: each
\* holds the cells of the render that scheduled it.
TrackDelayedPlays(pl, newTrack, ip, yp, st) ==
    IF TrackCommands(pl, newTrack, yp) # <<>> /\ ip
    THEN <<[youtubePlaylist |-> pl, youtubePlayer |-> yp, settings |-> st]>>
    ELSE <<>>

\* The playlist panel of the settings is rendered.
PlaylistPanelRendered == settings.musicEnabled

\* The music controls are rendered.
MusicControlsRendered == settings.musicEnabled /\ Len(youtubePlaylist) > 0

\* What a playback handler leaves alone.
PlaybackHandler ==
    /\ emitted' = <<>>
    /\ UNCHANGED <<todos, timer, settings, permission>>
    /\ UNCHANGED editing

\* Add pressed in the playlist panel with url in the URL field.
AddYouTubeTrack(url) ==
    /\ PlaybackHandler
    /\ PlaylistPanelRendered
    /\ LET pl == addYouTubeTrack(youtubePlaylist, clock + 1, url)
       IN  /\ pl # youtubePlaylist => clock < MaxTracks
           /\ clock' = IF pl # youtubePlaylist THEN clock + 1 ELSE clock
           /\ RenderEffects(pl, currentTrack, isPlaying, youtubePlayer,
                            isYouTubeAPIReady, <<>>)
    /\ alerted' = addYouTubeTrackAlerts(url)
    /\ UNCHANGED pendingPlays

\* Remove pressed on the track with the given id.
RemoveTrack(id) ==
    /\ PlaybackHandler
    /\ PlaylistPanelRendered
    /\ \E i \in 1..Len(youtubePlaylist) : youtubePlaylist[i].id = id
    /\ RenderEffects(removeTrack(youtubePlaylist, id),
                     removeTrackCurrent(youtubePlaylist, currentTrack),
                     isPlaying, youtubePlayer, isYouTubeAPIReady, <<>>)
    /\ alerted' = <<>>
    /\ UNCHANGED <<pendingPlays, clock>>

\* The next-track button pressed.
NextTrack ==
    /\ PlaybackHandler
    /\ MusicControlsRendered
    /\ LET newTrack == nextTrack(youtubePlaylist, currentTrack)
           plays == TrackDelayedPlays(youtubePlaylist, newTrack, isPlaying,
                                      youtubePlayer, settings)
       IN  /\ Len(pendingPlays) + Len(plays) <= MaxPendingPlays
           /\ pendingPlays' = pendingPlays \o plays
           /\ RenderEffects(youtubePlaylist, newTrack, isPlaying, youtubePlayer,
                            isYouTubeAPIReady,
                            TrackCommands(youtubePlaylist, newTrack, youtubePlayer))
    /\ alerted' = <<>>
    /\ UNCHANGED clock

\* The previous-track button pressed.
PreviousTrack ==
    /\ PlaybackHandler
    /\ MusicControlsRendered
    /\ LET newTrack == previousTrack(youtubePlaylist, currentTrack)
           plays == TrackDelayedPlays(youtubePlaylist, newTrack, isPlaying,
                                      youtubePlayer, settings)
       IN  /\ Len(pendingPlays) + Len(plays) <= MaxPendingPlays
           /\ pendingPlays' = pendingPlays \o plays
           /\ RenderEffects(youtubePlaylist, newTrack, isPlaying, youtubePlayer,
                            isYouTubeAPIReady,
                            TrackCommands(youtubePlaylist, newTrack, youtubePlayer))
    /\ alerted' = <<>>
    /\ UNCHANGED clock

\* The play / pause button of the music controls pressed: toggleMusic.
ToggleMusic ==
    /\ PlaybackHandler
    /\ MusicControlsRendered
    /\ IF isPlaying
       THEN RenderEffects(youtubePlaylist, currentTrack,
                          IF PauseMusicActs(youtubePlayer) THEN FALSE ELSE isPlaying,
                          youtubePlayer, isYouTubeAPIReady,
                          IF PauseMusicActs(youtubePlayer)
                          THEN <<[call |-> "pauseVideo"]>> ELSE <<>>)
       ELSE RenderEffects(youtubePlaylist, currentTrack,
                          IF PlayMusicActs(youtubePlaylist, youtubePlayer, settings)
                          THEN TRUE ELSE isPlaying,
                          youtubePlayer, isYouTubeAPIReady,
                          IF PlayMusicActs(youtubePlaylist, youtubePlayer, settings)
                          THEN <<[call |-> "playVideo"]>> ELSE <<>>)
    /\ alerted' = <<>>
    /\ UNCHANGED <<pendingPlays, clock>>

\* A delayed playMusic call fires: playMusic of the render that scheduled it.
DelayedPlay ==
    /\ PlaybackHandler
    /\ pendingPlays # <<>>
    /\ LET c == Head(pendingPlays)
           acts == PlayMusicActs(c.youtubePlaylist, c.youtubePlayer, c.settings)
       IN  RenderEffects(youtubePlaylist, currentTrack,
                         IF acts THEN TRUE ELSE isPlaying,
                         youtubePlayer, isYouTubeAPIReady,
                         IF acts THEN <<[call |-> "playVideo"]>> ELSE <<>>)
    /\ pendingPlays' = Tail(pendingPlays)
    /\ alerted' = <<>>
    /\ UNCHANGED clock

\* The script of the IFrame API has loaded: it defines window.YT and calls
\* onYouTubeIframeAPIReady, which is the callback of the last mount.
ApiReady ==
    /\ windowYT = "loading"
    /\ IF route = "/pomodoro"
       THEN /\ PlaybackHandler
            /\ RenderEffects(youtubePlaylist, currentTrack, isPlaying,
                             youtubePlayer, TRUE, <<>>)
            /\ alerted' = <<>>
            /\ UNCHANGED <<pendingPlays, clock>>
       ELSE /\ windowYT' = "defined"
            /\ commands' = <<>>
            /\ UNCHANGED orphans
            /\ NoRender

\* The widget reports that it is ready: onReady of the render that created it.
PlayerReady ==
    /\ PlaybackHandler
    /\ widget # <<>>
    /\ youtubePlayer = NoPlayer
    /\ RenderEffects(youtubePlaylist, currentTrack, isPlaying, PlayerHandle,
                     isYouTubeAPIReady,
                     <<[call |-> "setVolume",
                        volume |-> WidgetVolume(widget[1].closure.settings)]>>)
    /\ alerted' = <<>>
    /\ UNCHANGED <<pendingPlays, clock>>

\* The widget reports that the playing video has ended: onStateChange of the
\* render that created the widget calls the nextTrack of that render.
TrackEnded ==
    /\ PlaybackHandler
    /\ widget # <<>>
    /\ widget[1].state = "playing"
    /\ LET c == widget[1].closure
           newTrack == nextTrack(c.youtubePlaylist, c.currentTrack)
           plays == TrackDelayedPlays(c.youtubePlaylist, newTrack, c.isPlaying,
                                      c.youtubePlayer, c.settings)
           cmds == TrackCommands(c.youtubePlaylist, newTrack, c.youtubePlayer)
       IN  /\ Len(pendingPlays) + Len(plays) <= MaxPendingPlays
           /\ pendingPlays' = pendingPlays \o plays
           /\ youtubePlaylist' = youtubePlaylist
           /\ currentTrack' = newTrack
           /\ youtubePlayer' = youtubePlayer
           /\ isYouTubeAPIReady' = isYouTubeAPIReady
           /\ isPlaying' = isPlaying
           /\ commands' = cmds
           /\ widget' = WidgetRun(<<[widget[1] EXCEPT !.state = "ended"]>>, cmds)
           /\ UNCHANGED <<interval, storage, windowYT, orphans>>
           /\ loaded' = <<>>
           /\ UNCHANGED <<sandbox, route>>
    /\ alerted' = <<>>
    /\ UNCHANGED clock

\* The music checkbox of the settings is clicked.
MusicEnabledInput ==
    UpdateSettings([musicEnabled |-> ~settings.musicEnabled])

\* Contents of the URL field of the playlist panel when Add is pressed.
YoutuBeUrl ==
    <<"h", "t", "t", "p", "s", ":", "/", "/", "y", "o", "u", "t", "u", ".",
      "b", "e", "/", "a", "b", "c", "1", "2", "3">>

WatchUrl ==
    <<"h", "t", "t", "p", "s", ":", "/", "/", "w", "w", "w", ".", "y", "o",
      "u", "t", "u", "b", "e", ".", "c", "o", "m", "/", "w", "a", "t", "c",
      "h", "?", "v", "=", "a", "b", "c", "1", "2", "3", "&", "t", "=", "5">>

EmbedUrl ==
    <<"h", "t", "t", "p", "s", ":", "/", "/", "w", "w", "w", ".", "y", "o",
      "u", "t", "u", "b", "e", ".", "c", "o", "m", "/", "e", "m", "b", "e",
      "d", "/", "a", "b", "c", "1", "2", "3">>

ShareUrl ==
    <<"h", "t", "t", "p", "s", ":", "/", "/", "y", "o", "u", "t", "u", ".",
      "b", "e", "/", "a", "b", "c", "1", "2", "3", "?", "t", "=", "5">>

ExampleUrl ==
    <<"h", "t", "t", "p", "s", ":", "/", "/", "e", "x", "a", "m", "p", "l",
      "e", ".", "c", "o", "m">>

BlankUrl == <<" ", "\t">>

Urls == {YoutuBeUrl, WatchUrl, EmbedUrl, ShareUrl, ExampleUrl, BlankUrl, <<>>}

\* A localStorage left by an earlier visit in which the user set the two
\* durations to MinDuration and ticked the music checkbox while the timer was
\* idle, and did nothing else.
EarlierVisitMusic ==
    Saved(<<>>,
          Spread(DefaultSettings, [workDuration |-> MinDuration,
                                   breakDuration |-> MinDuration,
                                   musicEnabled |-> TRUE]),
          Spread(DefaultTimer, [minutes |-> MinDuration]),
          <<>>)

\* The localStorage of EarlierVisitPaused had the user, before starting the
\* session, ticked the music checkbox and added one track.
EarlierVisitPausedMusic ==
    Saved(<<NewTodo(1, <<"a">>, DefaultEstimate)>>,
          Spread(DefaultSettings, [workDuration |-> MinDuration,
                                   breakDuration |-> MinDuration,
                                   musicEnabled |-> TRUE]),
          Spread(startPomodoroForTask(DefaultSettings, 1),
                 [minutes |-> 0, seconds |-> 1, isActive |-> FALSE]),
          <<NewTrack(2, extractVideoId(WatchUrl), WatchUrl)>>)

---------------------------------------------------------------------------
(* In every specification but SpecPersist and SpecSandbox no event reaches  *)
(* the component between the two renders of a mount.                        *)

(* Spec: the session engine and the duration settings.  No task is ever    *)
(* created: sessions are started with the Start / Pause button.            *)

Init ==
    /\ \E w \in MinDuration..MaxDuration, b \in MinDuration..MaxDuration :
          Mounted(EarlierVisit(w, b), FALSE)
    /\ permission = "granted"
    /\ clock = 0

Next ==
    \/ LoadedRender
    \/ loaded = <<>> /\ Reload
    \/ loaded = <<>> /\ ToggleTimer
    \/ loaded = <<>> /\ ResetTimer
    \/ loaded = <<>> /\ SwitchMode
    \/ loaded = <<>> /\ \E raw \in DurationInputs : WorkDurationInput(raw)
    \/ loaded = <<>> /\ \E raw \in DurationInputs : BreakDurationInput(raw)
    \/ loaded = <<>> /\ Tick

Spec == Init /\ [][Next]_vars

---------------------------------------------------------------------------
(* SpecTasks: the session engine and the task list.  The durations stay at *)
(* MinDuration and the completion checkbox is not used.                    *)

InitTasks ==
    /\ Mounted(EarlierVisit(MinDuration, MinDuration), FALSE)
    /\ permission = "granted"
    /\ clock = 0

NextTasks ==
    \/ LoadedRender
    \/ loaded = <<>> /\ Reload
    \/ loaded = <<>> /\ \E title \in Titles : AddTodo(title, DefaultEstimate)
    \/ loaded = <<>> /\ \E id \in 1..MaxTasks : DeleteTodo(id)
    \/ loaded = <<>> /\ \E confirmed \in BOOLEAN : ClearAllTasks(confirmed)
    \/ loaded = <<>> /\ \E i \in 1..MaxTasks : StartPomodoro(i)
    \/ loaded = <<>> /\ ToggleTimer
    \/ loaded = <<>> /\ ResetTimer
    \/ loaded = <<>> /\ SwitchMode
    \/ loaded = <<>> /\ Tick

SpecTasks == InitTasks /\ [][NextTasks]_vars

---------------------------------------------------------------------------
(* SpecTyped: Spec with the duration inputs taking every value of          *)
(* TypedDurationInputs.                                                    *)

NextTyped ==
    \/ LoadedRender
    \/ loaded = <<>> /\ Reload
    \/ loaded = <<>> /\ ToggleTimer
    \/ loaded = <<>> /\ ResetTimer
    \/ loaded = <<>> /\ SwitchMode
    \/ loaded = <<>> /\ \E raw \in TypedDurationInputs : WorkDurationInput(raw)
    \/ loaded = <<>> /\ \E raw \in TypedDurationInputs : BreakDurationInput(raw)
    \/ loaded = <<>> /\ Tick

SpecTyped == Init /\ [][NextTyped]_vars

---------------------------------------------------------------------------
(* SpecSession: Spec over a task list that holds one task, for which       *)
(* sessions can be started.                                                *)

InitSession ==
    /\ \E w \in MinDuration..MaxDuration, b \in MinDuration..MaxDuration :
          Mounted(EarlierVisitTask(w, b), FALSE)
    /\ permission = "granted"
    /\ clock = 1

NextSession ==
    \/ LoadedRender
    \/ loaded = <<>> /\ Reload
    \/ loaded = <<>> /\ StartPomodoro(1)
    \/ loaded = <<>> /\ ToggleTimer
    \/ loaded = <<>> /\ ResetTimer
    \/ loaded = <<>> /\ SwitchMode
    \/ loaded = <<>> /\ \E raw \in DurationInputs : WorkDurationInput(raw)
    \/ loaded = <<>> /\ \E raw \in DurationInputs : BreakDurationInput(raw)
    \/ loaded = <<>> /\ Tick

SpecSession == InitSession /\ [][NextSession]_vars

---------------------------------------------------------------------------
(* SpecRegistry: the task list with its form, its editor and its           *)
(* completion checkbox, around the expiry of a Focus session.  The earlier *)
(* visit left one task and its Focus session paused one second before the  *)
(* end.  Start / Pause is pressed in Focus only and the notifications      *)
(* checkbox is clicked while the timer runs only, so that no countdown of  *)
(* a whole minute is taken; the durations stay at MinDuration.             *)

InitRegistry ==
    /\ Mounted(EarlierVisitPaused, FALSE)
    /\ permission = "granted"
    /\ clock = 1

NextRegistry ==
    \/ LoadedRender
    \/ loaded = <<>> /\ Reload
    \/ loaded = <<>> /\ \E title \in Titles, raw \in NewTodoPomodoros :
          AddTodo(title, NewTodoPomodorosUpdate(raw))
    \/ loaded = <<>> /\ \E id \in 1..MaxTasks : DeleteTodo(id)
    \/ loaded = <<>> /\ \E id \in 1..MaxTasks : ToggleTodoComplete(id)
    \/ loaded = <<>> /\ \E i \in 1..MaxTasks : StartEditingTask(i)
    \/ loaded = <<>> /\ \E text \in EditedTitles : EditingTitleInput(text)
    \/ loaded = <<>> /\ \E raw \in EditedPomodoros : EditingPomodorosInput(raw)
    \/ loaded = <<>> /\ SaveTaskEdit
    \/ loaded = <<>> /\ CancelTaskEdit
    \/ loaded = <<>> /\ ~timer.isBreak /\ ToggleTimer
    \/ loaded = <<>> /\ timer.isActive /\ NotificationsInput
    \/ loaded = <<>> /\ Tick

SpecRegistry == InitRegistry /\ [][NextRegistry]_vars

---------------------------------------------------------------------------
(* SpecStart: the Start Pomodoro buttons of a task list of up to MaxTasks   *)
(* tasks, with the completion checkbox, the task editor and the work       *)
(* duration input.  The visit starts as in SpecRegistry: one task and its  *)
(* Focus session paused one second before the end.  The timer ticks in the *)
(* last minute of a countdown and once from a full minute above the last,  *)
(* so that no countdown of a whole minute is taken; the remaining times    *)
(* from which a session is started come from these ticks, the pause, the   *)
(* expiry, Reset, the switch-mode button and the work duration input; the  *)
(* break duration stays at MinDuration.                                    *)

NextStart ==
    \/ LoadedRender
    \/ loaded = <<>> /\ Reload
    \/ loaded = <<>> /\ \E title \in Titles : AddTodo(title, DefaultEstimate)
    \/ loaded = <<>> /\ \E id \in 1..MaxTasks : ToggleTodoComplete(id)
    \/ loaded = <<>> /\ \E i \in 1..MaxTasks : StartEditingTask(i)
    \/ loaded = <<>> /\ CancelTaskEdit
    \/ loaded = <<>> /\ \E i \in 1..MaxTasks : StartPomodoro(i)
    \/ loaded = <<>> /\ ToggleTimer
    \/ loaded = <<>> /\ ResetTimer
    \/ loaded = <<>> /\ SwitchMode
    \/ loaded = <<>> /\ \E raw \in DurationInputs : WorkDurationInput(raw)
    \/ loaded = <<>> /\ (timer.minutes = 0 \/ (timer.minutes > 1 /\ timer.seconds = 0)) /\ Tick

SpecStart == InitRegistry /\ [][NextStart]_vars

---------------------------------------------------------------------------
(* SpecNotify: the session engine, the notifications checkbox and the      *)
(* permission prompt.  No task is created and the durations stay at        *)
(* MinDuration.                                                            *)

InitNotify ==
    /\ Mounted(EarlierVisit(MinDuration, MinDuration), FALSE)
    /\ permission \in {"default", "granted", "denied"}
    /\ clock = 0

NextNotify ==
    \/ LoadedRender
    \/ loaded = <<>> /\ Reload
    \/ loaded = <<>> /\ \E answer \in {"granted", "denied"} : PermissionAnswer(answer)
    \/ loaded = <<>> /\ NotificationsInput
    \/ loaded = <<>> /\ ToggleTimer
    \/ loaded = <<>> /\ ResetTimer
    \/ loaded = <<>> /\ SwitchMode
    \/ loaded = <<>> /\ Tick

SpecNotify == InitNotify /\ [][NextNotify]_vars

---------------------------------------------------------------------------
(* SpecDangling: the session engine and the task list after a load in      *)
(* which the tasks fell back to the empty list while the timer slot still  *)
(* named a current task.  The durations stay at MinDuration.               *)

InitDangling ==
    /\ \E slot \in {<<>>, Malformed} : Mounted(EarlierVisitLostTodos(slot), FALSE)
    /\ permission = "granted"
    /\ clock = 1

NextDangling ==
    \/ LoadedRender
    \/ loaded = <<>> /\ Reload
    \/ loaded = <<>> /\ \E title \in Titles : AddTodo(title, DefaultEstimate)
    \/ loaded = <<>> /\ \E id \in 1..MaxTasks : DeleteTodo(id)
    \/ loaded = <<>> /\ \E i \in 1..MaxTasks : StartPomodoro(i)
    \/ loaded = <<>> /\ ToggleTimer
    \/ loaded = <<>> /\ ResetTimer
    \/ loaded = <<>> /\ SwitchMode
    \/ loaded = <<>> /\ Tick

SpecDangling == InitDangling /\ [][NextDangling]_vars

---------------------------------------------------------------------------
(* Properties of the session engine. *)

\* The sum of completedPomodoros over the list.
RECURSIVE SumCompleted(_)
SumCompleted(td) ==
    IF td = <<>> THEN 0 ELSE Head(td).completedPomodoros + SumCompleted(Tail(td))

\* The positions at which two lists of the same length differ.
Changed(td1, td2) == {i \in 1..Len(td1) : td1[i] # td2[i]}

\* C1: a Focus session started for a task carries that task's id unchanged
\* through its ticks, and its natural expiry adds exactly 1 to the
\* completedPomodoros of that task and changes no other task; a Focus
\* session that expires with no current task changes no task.
C1_FocusExpiryCompletesOnePomodoro ==
    [][ /\ \A i \in 1..MaxTasks :
              StartPomodoro(i) =>
                  timer'.currentTaskId = todos[i].id /\ ~timer'.isBreak
        /\ Tick => timer'.currentTaskId = timer.currentTaskId
        /\ (Tick /\ Expired(timer) /\ ~timer.isBreak) =>
              /\ Len(todos') = Len(todos)
              /\ IF timer.currentTaskId = Null
                 THEN todos' = todos
                 ELSE \E i \in 1..Len(todos) :
                         /\ todos[i].id = timer.currentTaskId
                         /\ Changed(todos, todos') = {i}
                         /\ todos'[i] = [todos[i] EXCEPT
                                !.completedPomodoros = todos[i].completedPomodoros + 1]
      ]_vars

\* C1 witness: a Focus session of one of two tasks has just expired; that
\* task has one completed pomodoro and the other has none.
C1_Witness ==
    /\ emitted = <<"Pomodoro Complete!">>
    /\ Len(todos) = 2
    /\ \E i \in 1..2 :
          /\ todos[i].id = timer.currentTaskId
          /\ todos[i].completedPomodoros = 1
          /\ todos[3 - i].completedPomodoros = 0

\* C2: in every reachable state the remaining time is not negative:
\* minutes >= 0 and 0 <= seconds <= 59.
C2_RemainingNeverNegative ==
    /\ timer.minutes >= 0
    /\ timer.seconds >= 0
    /\ timer.seconds <= BorrowSeconds

\* C3: the tick taken at 00:00 flips the kind once and fires at most one
\* completion event (at most one notification, at most one completed
\* pomodoro); a tick taken above 00:00 does not flip the kind and fires none.
C3_KindFlipsOncePerBoundary ==
    [][ Tick =>
          IF timer.minutes = 0 /\ timer.seconds = 0
          THEN /\ timer'.isBreak = ~timer.isBreak
               /\ Len(emitted') <= 1
               /\ SumCompleted(todos') - SumCompleted(todos) \in {0, 1}
               /\ Cardinality(Changed(todos, todos')) <= 1
          ELSE /\ timer'.isBreak = timer.isBreak
               /\ emitted' = <<>>
               /\ todos' = todos
      ]_vars

\* C3 witness: a Break has just expired: the kind is Focus again and one
\* notification was created.
C3_Witness ==
    /\ emitted = <<"Break Over!">>
    /\ ~timer.isBreak
    /\ SumCompleted(todos) = 1

\* C4: while the timer runs the switch-mode button does nothing: no step of
\* switchMode is possible, so kind, remaining time, isActive and
\* currentTaskId keep their values.
C4_SwitchModeRejectedWhileRunning ==
    timer.isActive => ~ENABLED SwitchMode

\* C4 witness: a Break is running in the middle of its countdown and the
\* switch-mode button is disabled.
C4_Witness ==
    /\ timer.isActive
    /\ timer.isBreak
    /\ timer.seconds > 0
    /\ ~ENABLED SwitchMode

\* C5: deleting the current task removes it, sets currentTaskId to null and
\* isActive to false (kind and remaining time kept, interval cleared);
\* deleting any other task removes it and leaves the timer unchanged.
C5_DeleteCascadesToSession ==
    [][ \A id \in 1..MaxTasks :
          DeleteTodo(id) =>
            /\ ~HasTodo(todos', id)
            /\ Len(todos') = Len(todos) - 1
            /\ \A i \in 1..Len(todos) :
                  todos[i].id # id => \E j \in 1..Len(todos') : todos'[j] = todos[i]
            /\ IF timer.currentTaskId = id
               THEN /\ timer' = [timer EXCEPT !.currentTaskId = Null,
                                              !.isActive = FALSE]
                    /\ interval' = <<>>
               ELSE timer' = timer /\ interval' = interval
      ]_vars

\* C5 witness: two tasks, a running Focus session of one of them, and the
\* Delete button of that task can be pressed.
C5_Witness ==
    /\ Len(todos) = 2
    /\ timer.isActive
    /\ timer.seconds > 0
    /\ timer.currentTaskId # Null
    /\ ENABLED DeleteTodo(timer.currentTaskId)

\* C6: a work duration update to w while the timer is idle in Focus makes
\* the remaining time w:00, whatever it was before; while the timer runs it
\* leaves the remaining time unchanged.
C6_WorkDurationUpdateSetsRemaining ==
    [][ \A raw \in DurationInputs :
          WorkDurationInput(raw) =>
            /\ (~timer.isActive /\ ~timer.isBreak) =>
                  /\ timer'.minutes = WorkDurationUpdate(raw).workDuration
                  /\ timer'.seconds = 0
            /\ timer.isActive =>
                  /\ timer'.minutes = timer.minutes
                  /\ timer'.seconds = timer.seconds
      ]_vars

\* C7: a load always leaves isActive false and no interval, also when the
\* stored snapshot says isActive true; an interval is created again only by
\* Start / Pause or Start Pomodoro.
C7_LoadNeverResumes ==
    [][ /\ (Reload \/ LoadedRender) => (~timer'.isActive /\ interval' = <<>>)
        /\ (interval = <<>> /\ interval' # <<>>) =>
              (ToggleTimer \/ \E i \in 1..MaxTasks : StartPomodoro(i))
      ]_vars

\* C7 witness: the timer runs in the middle of a countdown, the stored
\* snapshot says isActive true, and the page can be reloaded.
C7_Witness ==
    /\ timer.isActive
    /\ timer.seconds > 0
    /\ ParseObject(storage.timer[1].text).isActive
    /\ ENABLED Reload

\* C8: at a natural expiry the remaining time becomes the duration of the
\* new kind as the settings hold it at that moment, with 0 seconds.
C8_ExpiryUsesCurrentSettings ==
    [][ (Tick /\ Expired(timer)) =>
          /\ timer'.seconds = 0
          /\ timer'.minutes =
                IF timer.isBreak THEN settings.workDuration
                ELSE settings.breakDuration
      ]_vars

\* C9: the expiry tick sets isActive to false and leaves no interval; a tick
\* is taken only while the timer is active; and the timer becomes active
\* again only by Start / Pause or Start Pomodoro.
C9_TimerPausesAtBoundary ==
    [][ /\ Tick => timer.isActive
        /\ (Tick /\ Expired(timer)) => (~timer'.isActive /\ interval' = <<>>)
        /\ (~timer.isActive /\ timer'.isActive) =>
              (ToggleTimer \/ \E i \in 1..MaxTasks : StartPomodoro(i))
      ]_vars

\* C9 witness: a Break has just expired; the timer is idle and no tick can
\* be taken.
C9_Witness ==
    /\ emitted = <<"Break Over!">>
    /\ ~timer.isActive
    /\ ~ENABLED Tick

\* C10 as claimed: Start Pomodoro can be taken in every state, for every task.
C10_StartAllowedInEveryState ==
    \A i \in 1..Len(todos) : ENABLED StartPomodoro(i)

\* C10 amended: Start Pomodoro can be taken for a task exactly when the
\* timer is idle, the task is not completed and its row is not in editing
\* mode (in Focus or Break, at any remaining time); it then yields Focus,
\* workDuration:00 of the current settings, the task as current task and a
\* running timer whose interval holds the current settings, and it leaves
\* the tasks, the settings and the edit in progress as they are.
C10_StartWhenOffered ==
    /\ [](\A i \in 1..Len(todos) :
            (ENABLED StartPomodoro(i)) <=>
                (/\ ~timer.isActive
                 /\ ~todos[i].isCompleted
                 /\ editingTaskId # todos[i].id))
    /\ [][ \A i \in 1..MaxTasks :
             StartPomodoro(i) =>
               /\ timer' = [minutes |-> settings.workDuration,
                            seconds |-> 0,
                            isActive |-> TRUE,
                            isBreak |-> FALSE,
                            currentTaskId |-> todos[i].id]
               /\ interval' = <<settings>>
               /\ todos' = todos
               /\ settings' = settings
               /\ editingTaskId' = editingTaskId
         ]_vars

\* C10 witness: a session has been started for the second of two tasks
\* while the row of the first is in editing mode, after an earlier Focus
\* session has expired (one pomodoro is completed), with a work duration
\* that differs from the break duration and from the one of the earlier
\* visit: Focus, the full work duration, running, the second task current.
C10_Witness ==
    /\ Len(todos) = 2
    /\ editingTaskId = todos[1].id
    /\ settings.workDuration # settings.breakDuration
    /\ settings.workDuration # MinDuration
    /\ timer = startPomodoroForTask(settings, todos[2].id)
    /\ interval = <<settings>>
    /\ SumCompleted(todos) = 1

\* A state of SpecStart: in a Break, Start Pomodoro can be pressed on the
\* second task while the button of the first, which is completed, is absent.
C10_OfferedInBreak ==
    /\ timer.isBreak
    /\ Len(todos) = 2
    /\ todos[1].isCompleted
    /\ ~ENABLED StartPomodoro(1)
    /\ ENABLED StartPomodoro(2)

\* A state of SpecStart: in a paused Focus session with seconds on the
\* clock, Start Pomodoro can be pressed on the second task while the first,
\* which is not completed, is in editing mode and has no button.
C10_OfferedMidFocus ==
    /\ ~timer.isBreak
    /\ timer.seconds # 0
    /\ Len(todos) = 2
    /\ ~todos[1].isCompleted
    /\ editingTaskId = todos[1].id
    /\ ~ENABLED StartPomodoro(1)
    /\ ENABLED StartPomodoro(2)

\* The remaining time in seconds.
Total(tm) == (BorrowSeconds + 1) * tm.minutes + tm.seconds

\* The timer after at most n interval callbacks, stopping when it shows
\* 00:00, and the number of callbacks taken added to count.
RECURSIVE RunTicks(_, _, _, _)
RunTicks(tm, cs, n, count) ==
    IF n = 0 \/ Total(tm) = 0 THEN <<tm, count>>
    ELSE RunTicks(tickTimer(tm, cs), cs, n - 1, count + 1)

\* The number of interval callbacks after which the timer first shows 00:00,
\* counted one minute at a time.
RECURSIVE TicksToZero(_, _)
TicksToZero(tm, cs) ==
    LET run == RunTicks(tm, cs, BorrowSeconds + 1, 0)
    IN  IF Total(run[1]) = 0 THEN run[2] ELSE run[2] + TicksToZero(run[1], cs)

\* C11: the switch-mode button is pressed only while the timer is idle; it
\* flips the kind, sets the remaining time to the duration the settings hold
\* for the new kind with 0 seconds, leaves the timer idle, sets currentTaskId
\* to null when the new kind is Break and keeps it when the new kind is Focus.
C11_SwitchModeWhileIdle ==
    [][ SwitchMode =>
          /\ ~timer.isActive
          /\ timer'.isBreak = ~timer.isBreak
          /\ timer'.minutes = IF timer'.isBreak THEN settings.breakDuration
                              ELSE settings.workDuration
          /\ timer'.seconds = 0
          /\ ~timer'.isActive
          /\ interval' = <<>>
          /\ timer'.currentTaskId =
                IF timer'.isBreak THEN Null ELSE timer.currentTaskId
      ]_vars

\* C11 witness: a Break that followed the Focus session of a task is paused
\* in the middle of its countdown, the two durations differ, and the
\* switch-mode button can be pressed.
C11_Witness ==
    /\ timer.isBreak
    /\ ~timer.isActive
    /\ timer.seconds > 0
    /\ timer.currentTaskId # Null
    /\ settings.workDuration # settings.breakDuration
    /\ ENABLED SwitchMode

\* C12: Reset, from any state of the timer, sets the remaining time to the
\* duration the settings hold for the current kind with 0 seconds, stops the
\* timer (no interval is left) and keeps the kind and currentTaskId; a
\* second Reset changes nothing.
C12_ResetRestoresFullDuration ==
    [][ ResetTimer =>
          /\ timer' = [minutes |-> IF timer.isBreak THEN settings.breakDuration
                                   ELSE settings.workDuration,
                       seconds |-> 0,
                       isActive |-> FALSE,
                       isBreak |-> timer.isBreak,
                       currentTaskId |-> timer.currentTaskId]
          /\ interval' = <<>>
          /\ todos' = todos
          /\ settings' = settings
          /\ resetTimer(timer', settings') = timer'
          /\ (timer = resetTimer(timer, settings)) =>
                UNCHANGED <<todos, timer, settings, interval, storage>>
      ]_vars

\* C12 witness: a Break that followed the Focus session of a task runs in
\* the middle of its countdown, and Reset can be pressed.
C12_Witness ==
    /\ timer.isBreak
    /\ timer.isActive
    /\ timer.seconds > 0
    /\ timer.currentTaskId # Null
    /\ ENABLED ResetTimer

\* C13: Start / Pause flips isActive and changes nothing else (minutes,
\* seconds, kind, currentTaskId, tasks and settings keep their values); a
\* second press right after the first gives back the timer of before.
C13_ToggleFlipsOnlyIsActive ==
    [][ ToggleTimer =>
          /\ timer'.isActive = ~timer.isActive
          /\ timer'.minutes = timer.minutes
          /\ timer'.seconds = timer.seconds
          /\ timer'.isBreak = timer.isBreak
          /\ timer'.currentTaskId = timer.currentTaskId
          /\ todos' = todos
          /\ settings' = settings
          /\ toggleTimer(timer') = timer
      ]_vars

\* C13 witness: the Focus session of a task has been paused in the middle
\* of its countdown: no interval is left.
C13_Witness ==
    /\ ~timer.isBreak
    /\ ~timer.isActive
    /\ interval = <<>>
    /\ timer.seconds > 0
    /\ timer.currentTaskId # Null

\* C14: an interval callback runs only while the timer is active; when the
\* remaining time is above 00:00 it lowers the remaining time by exactly one
\* second, borrowing a minute (seconds 59) when the seconds are 0, and keeps
\* the kind, isActive, currentTaskId and the tasks; so a running timer that
\* shows m:00 first shows 00:00 after exactly 60*m callbacks (60*d for a
\* session of d minutes).
C14_TickDecrementsByOne ==
    /\ [][ (Tick /\ (timer.minutes > 0 \/ timer.seconds > 0)) =>
              /\ timer.isActive
              /\ Total(timer') = Total(timer) - 1
              /\ timer'.seconds = IF timer.seconds = 0 THEN BorrowSeconds
                                  ELSE timer.seconds - 1
              /\ timer'.minutes = IF timer.seconds = 0 THEN timer.minutes - 1
                                  ELSE timer.minutes
              /\ timer'.isBreak = timer.isBreak
              /\ timer'.isActive = timer.isActive
              /\ timer'.currentTaskId = timer.currentTaskId
              /\ todos' = todos
          ]_vars
    /\ [](timer.isActive /\ timer.seconds = 0 =>
            TicksToZero(timer, interval[1]) = (BorrowSeconds + 1) * timer.minutes)

\* C14 witness: a running Break of two minutes has just borrowed its first
\* minute: it shows 1:59.
C14_Witness ==
    /\ timer.isActive
    /\ timer.isBreak
    /\ timer.minutes = 1
    /\ timer.seconds = BorrowSeconds
    /\ interval[1].breakDuration = 2

\* C15: between a step's two states no task's completedPomodoros goes down;
\* it goes up, by 1, only in the interval callback that ends a Focus session
\* whose current task it is; saving an edit and clicking the checkbox keep
\* every completedPomodoros, before and after that callback.
C15_CompletedCountMonotone ==
    [][ /\ \A i \in 1..Len(todos) : \A j \in 1..Len(todos') :
              todos'[j].id = todos[i].id =>
                /\ todos'[j].completedPomodoros >= todos[i].completedPomodoros
                /\ todos'[j].completedPomodoros # todos[i].completedPomodoros =>
                      /\ Tick
                      /\ Expired(timer)
                      /\ ~timer.isBreak
                      /\ timer.currentTaskId = todos[i].id
                      /\ todos'[j].completedPomodoros =
                            todos[i].completedPomodoros + 1
        /\ (SaveTaskEdit \/ \E id \in 1..MaxTasks : ToggleTodoComplete(id)) =>
              /\ Len(todos') = Len(todos)
              /\ \A i \in 1..Len(todos) :
                    /\ todos'[i].id = todos[i].id
                    /\ todos'[i].completedPomodoros = todos[i].completedPomodoros
      ]_vars

\* C15 witness: the Focus session of a task has just expired while that
\* task, edited and marked completed before, is being edited again; it has
\* one completed pomodoro, and a second task has been created and deleted.
C15_Witness ==
    /\ emitted = <<"Pomodoro Complete!">>
    /\ Len(todos) = 1
    /\ clock = 2
    /\ editingTaskId = timer.currentTaskId
    /\ todos[1].id = timer.currentTaskId
    /\ todos[1].title = <<"b">>
    /\ todos[1].estimatedPomodoros = 2
    /\ todos[1].isCompleted
    /\ todos[1].completedPomodoros = 1

\* C16: the interval callback creates a notification only when, at that
\* moment, settings.notificationsEnabled is true and the permission is
\* granted; with the setting off (also when it was switched off while the
\* timer ran) it creates none.
C16_NotificationRespectsSetting ==
    [][ (Tick /\ emitted' # <<>>) =>
          (settings.notificationsEnabled /\ permission = "granted")
      ]_vars

\* C17: when a Focus session expires whose currentTaskId names no task of
\* the list, the callback sets currentTaskId to null and changes no task.
C17_DanglingTaskClearedAtExpiry ==
    [][ (/\ Tick
         /\ Expired(timer)
         /\ ~timer.isBreak
         /\ timer.currentTaskId # Null
         /\ ~HasTodo(todos, timer.currentTaskId)) =>
          /\ timer'.currentTaskId = Null
          /\ todos' = todos
      ]_vars

\* C18: Clear All acts only on a list that is not empty, and changes state
\* only when window.confirm answers yes: the list becomes empty and, when
\* there was a current task, currentTaskId becomes null and the timer stops
\* (no interval is left), otherwise the timer is as before; when the answer
\* is no, tasks, timer, settings, interval and storage are as before.
C18_ClearAllNeedsConfirmation ==
    /\ [](Len(todos) = 0 => \A confirmed \in BOOLEAN : ~ENABLED ClearAllTasks(confirmed))
    /\ [][ /\ ClearAllTasks(TRUE) =>
                /\ todos' = <<>>
                /\ IF timer.currentTaskId # Null
                   THEN /\ timer' = [timer EXCEPT !.currentTaskId = Null,
                                                  !.isActive = FALSE]
                        /\ interval' = <<>>
                   ELSE timer' = timer /\ interval' = interval
           /\ ClearAllTasks(FALSE) =>
                UNCHANGED <<todos, timer, settings, interval, storage>>
       ]_vars

\* C18 witness: two tasks, the Focus session of one of them running in the
\* middle of its countdown, and Clear All can be pressed and confirmed.
C18_Witness ==
    /\ Len(todos) = 2
    /\ timer.isActive
    /\ ~timer.isBreak
    /\ timer.seconds > 0
    /\ HasTodo(todos, timer.currentTaskId)
    /\ ENABLED ClearAllTasks(TRUE)

\* C20: in every reachable state settings.workDuration and
\* settings.breakDuration are positive, whatever is typed into the two
\* duration inputs.
C20_DurationsPositive ==
    /\ settings.workDuration > 0
    /\ settings.breakDuration > 0

\* t is title without its leading and trailing white space.
IsTrimOf(t, title) ==
    /\ t # <<>> => (Head(t) \notin WhiteSpace /\ t[Len(t)] \notin WhiteSpace)
    /\ \E a \in 0..Len(title) :
          /\ a + Len(t) <= Len(title)
          /\ SubSeq(title, a + 1, a + Len(t)) = t
          /\ \A k \in (1..a) \cup ((a + Len(t) + 1)..Len(title)) :
                title[k] \in WhiteSpace

\* C19: Add Task with a title that is empty or blank changes nothing (no
\* task, timer and storage as before); with any other title it puts exactly
\* one task after the tasks of before, which stay as they are, in order: the
\* title without its outer blanks, no completed pomodoro, not completed, a
\* fresh id, and the estimate of the form, which is 1 when the estimate
\* field was left alone or emptied.
C19_AddTodoValidatesTitle ==
    [][ \A title \in Titles, raw \in NewTodoPomodoros :
          AddTodo(title, NewTodoPomodorosUpdate(raw)) =>
            IF IsTrimOf(<<>>, title)
            THEN UNCHANGED <<todos, timer, settings, storage, clock>>
            ELSE /\ Len(todos') = Len(todos) + 1
                 /\ SubSeq(todos', 1, Len(todos)) = todos
                 /\ LET new == todos'[Len(todos')]
                    IN  /\ IsTrimOf(new.title, title)
                        /\ new.title # <<>>
                        /\ new.completedPomodoros = 0
                        /\ ~new.isCompleted
                        /\ new.estimatedPomodoros =
                              (IF raw = <<>> THEN 1 ELSE DigitValue(raw[1]))
                        /\ ~HasTodo(todos, new.id)
                 /\ UNCHANGED <<timer, settings>>
      ]_vars

\* C19 witness: a second task, with estimate 2 and title "a", stands after
\* the first one, which has been edited and has one completed pomodoro.
C19_Witness ==
    /\ Len(todos) = 2
    /\ todos[1].title = <<"b">>
    /\ todos[1].completedPomodoros = 1
    /\ todos[2] = [id |-> 2,
                   title |-> <<"a">>,
                   estimatedPomodoros |-> 2,
                   completedPomodoros |-> 0,
                   isCompleted |-> FALSE]

\* C29: in every reachable state in which the kind is Break, currentTaskId
\* is null, however the Break was entered.
C29_BreakHasNoTask ==
    timer.isBreak => timer.currentTaskId = Null

\* C30: a click on the notifications checkbox (a settings update that
\* changes no duration) leaves the timer as it is: minutes, seconds, kind,
\* isActive and currentTaskId, also when the timer is paused in the middle
\* of a countdown.
C30_OtherSettingsLeaveTimer ==
    [][ NotificationsInput => timer' = timer ]_vars

---------------------------------------------------------------------------
(* SpecExtract: the playlist panel alone.  The script of the IFrame API     *)
(* has not loaded, so no widget exists.                                     *)

InitExtract ==
    /\ Mounted(EarlierVisitMusic, FALSE)
    /\ permission = "granted"
    /\ clock = 0

NextExtract ==
    \/ LoadedRender
    \/ loaded = <<>> /\ Reload
    \/ loaded = <<>> /\ \E url \in Urls : AddYouTubeTrack(url)
    \/ loaded = <<>> /\ \E id \in 1..MaxTracks : RemoveTrack(id)

SpecExtract == InitExtract /\ [][NextExtract]_vars

Abc123 ==
    <<"a", "b", "c", "1", "2", "3">>

\* C23: extractVideoId yields "abc123" for https://youtu.be/abc123,
\* https://www.youtube.com/watch?v=abc123&t=5 and
\* https://www.youtube.com/embed/abc123, the identifier ending at the first
\* & or ? or at the end of the URL, and yields no identifier for
\* https://example.com; so every track added from one of these URLs has the
\* videoId "abc123" and no track was added from https://example.com.
C23_ExtractVideoId ==
    /\ \A url \in {YoutuBeUrl, WatchUrl, EmbedUrl, ShareUrl} :
           extractVideoId(url) = Abc123
    /\ extractVideoId(ExampleUrl) = <<>>
    /\ \A i \in 1..Len(youtubePlaylist) :
           /\ youtubePlaylist[i].url \in {YoutuBeUrl, WatchUrl, EmbedUrl, ShareUrl}
           /\ youtubePlaylist[i].videoId = Abc123

\* The three URLs of C23 were added and https://example.com was then refused.
C23_Witness ==
    /\ {youtubePlaylist[i].url : i \in 1..Len(youtubePlaylist)}
           = {YoutuBeUrl, WatchUrl, EmbedUrl}
    /\ alerted # <<>>

\* C22 as stated: Add with a URL from which no identifier is extracted shows
\* an alert and leaves the playlist and currentTrack unchanged; Add with any
\* other URL appends one track and leaves the tracks before it and
\* currentTrack unchanged.
C22_AddTrackRejectsOrAppends ==
    [][ \A url \in Urls : AddYouTubeTrack(url) =>
          IF extractVideoId(url) = <<>>
          THEN /\ alerted' # <<>>
               /\ youtubePlaylist' = youtubePlaylist
               /\ currentTrack' = currentTrack
          ELSE /\ Len(youtubePlaylist') = Len(youtubePlaylist) + 1
               /\ SubSeq(youtubePlaylist', 1, Len(youtubePlaylist)) = youtubePlaylist
               /\ youtubePlaylist'[Len(youtubePlaylist')].url = url
               /\ alerted' = <<>>
               /\ currentTrack' = currentTrack ]_vars

\* C22, amended: Add with an empty or blank URL shows nothing and leaves the
\* playlist and currentTrack unchanged; Add with any other URL from which no
\* identifier is extracted shows an alert and leaves the playlist and
\* currentTrack unchanged; Add with a URL from which an identifier is
\* extracted appends one track and leaves the tracks before it and
\* currentTrack unchanged.
C22_AddTrackBlankIsSilent ==
    [][ \A url \in Urls : AddYouTubeTrack(url) =>
          IF Trim(url) = <<>>
          THEN /\ alerted' = <<>>
               /\ youtubePlaylist' = youtubePlaylist
               /\ currentTrack' = currentTrack
          ELSE IF extractVideoId(url) = <<>>
          THEN /\ alerted' # <<>>
               /\ youtubePlaylist' = youtubePlaylist
               /\ currentTrack' = currentTrack
          ELSE /\ Len(youtubePlaylist') = Len(youtubePlaylist) + 1
               /\ SubSeq(youtubePlaylist', 1, Len(youtubePlaylist)) = youtubePlaylist
               /\ youtubePlaylist'[Len(youtubePlaylist')].url = url
               /\ alerted' = <<>>
               /\ currentTrack' = currentTrack ]_vars

\* A URL was refused with an alert while the playlist held a track, and a
\* blank URL can be submitted next.
C22_Witness ==
    /\ alerted # <<>>
    /\ Len(youtubePlaylist) > 0
    /\ ENABLED AddYouTubeTrack(BlankUrl)

---------------------------------------------------------------------------
(* SpecPlaylist: the playlist, the music controls and the widget.  The      *)
(* timer stays idle, so playback is started and paused by hand.  The user   *)
(* leaves the tracker for Index and comes back, and answers the permission  *)
(* prompt, at any time; the script of the IFrame API loads at any time.     *)

InitPlaylist ==
    /\ Mounted(EarlierVisitMusic, FALSE)
    /\ permission = "default"
    /\ clock = 0

NextPlaylist ==
    \/ LoadedRender
    \/ loaded = <<>> /\ Reload
    \/ loaded = <<>> /\ PomodoroToIndex
    \/ loaded = <<>> /\ IndexToPomodoro
    \/ loaded = <<>> /\ \E i \in 1..MaxOrphans : OrphanRuns(i)
    \/ loaded = <<>> /\ \E answer \in {"granted", "denied"} : PermissionAnswer(answer)
    \/ loaded = <<>> /\ clock < MaxPlaylist /\ \E url \in {WatchUrl, ExampleUrl} : AddYouTubeTrack(url)
    \/ loaded = <<>> /\ \E id \in 1..MaxPlaylist : RemoveTrack(id)
    \/ loaded = <<>> /\ ApiReady
    \/ loaded = <<>> /\ PlayerReady
    \/ loaded = <<>> /\ ToggleMusic
    \/ loaded = <<>> /\ NextTrack
    \/ loaded = <<>> /\ PreviousTrack
    \/ loaded = <<>> /\ DelayedPlay
    \/ loaded = <<>> /\ TrackEnded

SpecPlaylist == InitPlaylist /\ [][NextPlaylist]_vars

\* C25: when the widget reports the end of the video, currentTrack becomes
\* (currentTrack + 1) mod n for the playlist and the currentTrack of that
\* moment, and the widget is asked to load the track at the new position.
C25_TrackEndAdvancesCurrentState ==
    [][ TrackEnded =>
          /\ currentTrack' = (currentTrack + 1) % Len(youtubePlaylist)
          /\ commands' = <<[call |-> "loadVideoById",
                            videoId |-> youtubePlaylist[currentTrack' + 1].videoId]>>
      ]_vars

\* C21: currentTrack is 0 when the playlist is empty and otherwise a position
\* of the playlist (0 <= currentTrack < length), and Remove on a playlist of
\* one track leaves the playlist empty and currentTrack = 0.
C21_CurrentTrackInRange ==
    /\ [](IF Len(youtubePlaylist) = 0 THEN currentTrack = 0
          ELSE currentTrack \in 0..(Len(youtubePlaylist) - 1))
    /\ [][ \A id \in 1..MaxPlaylist :
              RemoveTrack(id) /\ Len(youtubePlaylist) = 1 =>
                youtubePlaylist' = <<>> /\ currentTrack' = 0 ]_vars

\* i - 1 + n mod n.
C24_Retreat(i, n) == (i - 1 + n) % n

RECURSIVE C24_Advances(_, _, _)
\* currentTrack after k presses of the next-track button.
C24_Advances(pl, i, k) ==
    IF k = 0 THEN i ELSE C24_Advances(pl, nextTrack(pl, i), k - 1)

\* C24: on a playlist of n >= 1 tracks with currentTrack = i the next-track
\* button sets currentTrack to (i + 1) mod n and the previous-track button to
\* (i - 1 + n) mod n, next followed by previous and previous followed by next
\* restore i, and n presses of next return to i; on an empty playlist
\* nextTrack and previousTrack change nothing.
C24_AdvanceRetreatCircular ==
    /\ [][ NextTrack =>
             currentTrack' = (currentTrack + 1) % Len(youtubePlaylist) ]_vars
    /\ [][ PreviousTrack =>
             currentTrack' = C24_Retreat(currentTrack, Len(youtubePlaylist)) ]_vars
    /\ [](Len(youtubePlaylist) >= 1 =>
             /\ previousTrack(youtubePlaylist,
                              nextTrack(youtubePlaylist, currentTrack)) = currentTrack
             /\ nextTrack(youtubePlaylist,
                          previousTrack(youtubePlaylist, currentTrack)) = currentTrack
             /\ C24_Advances(youtubePlaylist, currentTrack,
                             Len(youtubePlaylist)) = currentTrack)
    /\ [](Len(youtubePlaylist) = 0 =>
             /\ nextTrack(youtubePlaylist, currentTrack) = currentTrack
             /\ previousTrack(youtubePlaylist, currentTrack) = currentTrack)

---------------------------------------------------------------------------
(* SpecAutoplay: the autoplay policy.  The visit starts from a Focus        *)
(* session paused at 0:01 with music enabled and one track; the session is  *)
(* started, paused and left to expire, music is enabled and disabled, the   *)
(* track is removed and tracks are added, and playback is toggled by hand.  *)
(* The user does not start the Break and clicks the music checkbox only     *)
(* while the timer runs.                                                    *)

InitAutoplay ==
    /\ Mounted(EarlierVisitPausedMusic, FALSE)
    /\ permission = "granted"
    /\ clock = 2

NextAutoplay ==
    \/ LoadedRender
    \/ loaded = <<>> /\ Reload
    \/ loaded = <<>> /\ ApiReady
    \/ loaded = <<>> /\ PlayerReady
    \/ loaded = <<>> /\ ~timer.isBreak /\ ToggleTimer
    \/ loaded = <<>> /\ Tick
    \/ loaded = <<>> /\ timer.isActive /\ MusicEnabledInput
    \/ loaded = <<>> /\ clock < MaxPlaylist + 1 /\ AddYouTubeTrack(WatchUrl)
    \/ loaded = <<>> /\ \E id \in 2..(MaxPlaylist + 1) : RemoveTrack(id)
    \/ loaded = <<>> /\ ToggleMusic

SpecAutoplay == InitAutoplay /\ [][NextAutoplay]_vars

\* The condition of the autoplay policy: music on, session running, kind
\* Focus, playlist not empty.
C26_Policy ==
    /\ settings.musicEnabled
    /\ timer.isActive
    /\ ~timer.isBreak
    /\ Len(youtubePlaylist) > 0

\* The widget was asked to do call.
C26_Called(cmds, call) == \E i \in 1..Len(cmds) : cmds[i].call = call

\* C26: in every step after which the widget handle is present, if the
\* condition of the policy becomes true then playVideo is called and
\* isPlaying becomes true, and if it becomes false (music disabled, timer
\* paused or expired, kind Break, last track removed) then pauseVideo is
\* called and isPlaying becomes false; in every step during which the widget
\* handle is absent neither playVideo nor pauseVideo is called and isPlaying
\* is unchanged.
C26_AutoplayLevelTriggered ==
    [][ /\ youtubePlayer' # NoPlayer /\ ~C26_Policy /\ C26_Policy' =>
             C26_Called(commands', "playVideo") /\ isPlaying'
        /\ youtubePlayer' # NoPlayer /\ C26_Policy /\ ~C26_Policy' =>
             C26_Called(commands', "pauseVideo") /\ ~isPlaying'
        /\ youtubePlayer = NoPlayer /\ youtubePlayer' = NoPlayer =>
             /\ ~C26_Called(commands', "playVideo")
             /\ ~C26_Called(commands', "pauseVideo")
             /\ isPlaying' = isPlaying ]_vars

\* The Focus session expired while the music played: the widget was paused.
C26_Witness ==
    /\ youtubePlayer # NoPlayer
    /\ emitted # <<>>
    /\ timer.isBreak
    /\ C26_Called(commands, "pauseVideo")
    /\ ~isPlaying

---------------------------------------------------------------------------
(* SpecLoad: reloads over a localStorage of which any slots were damaged.   *)
(* The visit starts as in SpecExtract; tasks and tracks are added and       *)
(* removed, sessions are started for tasks and the timer is started and     *)
(* paused.  Every reload comes before the first tick of the running timer.  *)

NextLoad ==
    \/ LoadedRender
    \/ loaded = <<>> /\ \E damaged \in SUBSET SlotNames : ReloadDamaged(damaged)
    \/ loaded = <<>> /\ \E title \in Titles : AddTodo(title, DefaultEstimate)
    \/ loaded = <<>> /\ \E id \in 1..MaxTracks : DeleteTodo(id)
    \/ loaded = <<>> /\ AddYouTubeTrack(WatchUrl)
    \/ loaded = <<>> /\ \E id \in 1..MaxTracks : RemoveTrack(id)
    \/ loaded = <<>> /\ \E i \in 1..MaxTasks : StartPomodoro(i)
    \/ loaded = <<>> /\ ToggleTimer

SpecLoad == InitExtract /\ [][NextLoad]_vars

\* C27: a reload over a localStorage in which any set of the four slots is
\* malformed leaves exactly the aggregates of those slots at their defaults
\* and loads every other aggregate from its own slot: the load effect reads
\* the text of every other slot as the component wrote it, and the render of
\* what it read has the tasks, the settings and the playlist of those texts
\* and the timer of its text with isActive false.
C27_MalformedSlotsPerAggregate ==
    [][ /\ \A damaged \in SUBSET SlotNames : ReloadDamaged(damaged) =>
              IF damaged = SlotNames
              THEN /\ loaded' = <<>>
                   /\ todos' = <<>>
                   /\ settings' = DefaultSettings
                   /\ timer' = DefaultTimer
                   /\ youtubePlaylist' = <<>>
              ELSE /\ loaded' # <<>>
                   /\ \A k \in SlotNames :
                         loaded'[1].store[k] =
                            IF k \in damaged THEN Malformed
                            ELSE Saved(todos, settings, timer,
                                       youtubePlaylist)[k]
        /\ LoadedRender =>
              LET store == loaded[1].store
              IN  /\ IF store.todos = Malformed THEN todos' = <<>>
                     ELSE Item(StringifyArray(todos', TodoKeys)) = store.todos
                  /\ IF store.settings = Malformed
                     THEN settings' = DefaultSettings
                     ELSE Item(StringifyObject(settings', SettingsKeys)) =
                             store.settings
                  /\ IF store.timer = Malformed THEN timer' = DefaultTimer
                     ELSE /\ ~timer'.isActive
                          /\ \E active \in BOOLEAN :
                                Item(StringifyObject(
                                       [timer' EXCEPT !.isActive = active],
                                       TimerKeys)) = store.timer
                  /\ IF store.playlist = Malformed
                     THEN youtubePlaylist' = <<>>
                     ELSE Item(StringifyArray(youtubePlaylist', TrackKeys)) =
                             store.playlist ]_vars

\* After a reload over a malformed settings slot: the settings are the
\* defaults, and the task, the paused session and the track are loaded.
C27_Witness ==
    /\ settings = DefaultSettings
    /\ Len(todos) > 0
    /\ Len(youtubePlaylist) > 0
    /\ timer.currentTaskId # Null
    /\ timer.minutes = MinDuration

---------------------------------------------------------------------------
(* SpecSandbox: a visit that starts in the Moment.js sandbox and follows    *)
(* the Links between the three routes.  In the Pomodoro tracker the user    *)
(* does nothing but leave.                                                  *)

InitSandbox ==
    /\ todos = <<>>
    /\ settings = DefaultSettings
    /\ timer = DefaultTimer
    /\ interval = <<>>
    /\ emitted = <<>>
    /\ permission = "default"
    /\ storage = EarlierVisit(MinDuration, MinDuration)
    /\ clock = 0
    /\ editingTaskId = Null
    /\ editingTitle = <<>>
    /\ editingPomodoros = DefaultEstimate
    /\ youtubePlaylist = <<>>
    /\ currentTrack = 0
    /\ isPlaying = FALSE
    /\ youtubePlayer = NoPlayer
    /\ isYouTubeAPIReady = FALSE
    /\ widget = <<>>
    /\ pendingPlays = <<>>
    /\ commands = <<>>
    /\ alerted = <<>>
    /\ loaded = <<>>
    /\ windowYT = "none"
    /\ orphans = <<>>
    /\ route = "/home"
    /\ code = DefaultCode
    /\ output = <<>>
    /\ result = <<>>
    /\ error = ""
    /\ editorRef = FALSE
    /\ consoleLog = "native"
    /\ executions = {}
    /\ autoRun = <<DefaultCode>>
    /\ mountRun = <<>>
    /\ runs = 0

NextSandbox ==
    \/ EditorMounted
    \/ \E c \in TypedCodes : CodeInput(c)
    \/ \E c \in {DefaultCode, ExampleCode} : LoadExample(c)
    \/ RunCode
    \/ AutoRunFires
    \/ MountRunFires
    \/ \E e \in executions : FinishExecution(e)
    \/ HomeToPomodoro
    \/ LoadedRender
    \/ PomodoroToIndex
    \/ IndexToHome
    \/ IndexToPomodoro

SpecSandbox == InitSandbox /\ [][NextSandbox]_vars

\* C28: in every reachable state of the sandbox, result and error are not
\* both set, also when executions are started before an earlier
\* asynchronous script has finished.
C28_ResultXorError ==
    ~(result # <<>> /\ error # "")

---------------------------------------------------------------------------
(* SpecEditing: the task list and the task editor.  The timer stays idle.   *)

NextEditing ==
    \/ LoadedRender
    \/ loaded = <<>> /\ Reload
    \/ loaded = <<>> /\ \E title \in Titles : AddTodo(title, DefaultEstimate)
    \/ loaded = <<>> /\ \E id \in 1..MaxTasks : DeleteTodo(id)
    \/ loaded = <<>> /\ \E i \in 1..MaxTasks : StartEditingTask(i)
    \/ loaded = <<>> /\ \E text \in EditedTitles : EditingTitleInput(text)
    \/ loaded = <<>> /\ \E raw \in EditedPomodoros : EditingPomodorosInput(raw)
    \/ loaded = <<>> /\ SaveTaskEdit
    \/ loaded = <<>> /\ CancelTaskEdit
    \/ loaded = <<>> /\ \E id \in 1..MaxTasks : ToggleTodoComplete(id)
    \/ loaded = <<>> /\ \E confirmed \in BOOLEAN : ClearAllTasks(confirmed)

SpecEditing == InitTasks /\ [][NextEditing]_vars

\* C31: whenever an edit is in progress (editingTaskId is not null) the task
\* it names is in the task list, and whenever the list holds a task, either
\* Edit can be pressed on a task or the row in editing mode can be left with
\* Cancel, after which Edit can be pressed.
C31_EditReferenceNeverDangles ==
    /\ editingTaskId # Null => HasTodo(todos, editingTaskId)
    /\ Len(todos) > 0 =>
          \/ \E i \in 1..Len(todos) : ENABLED StartEditingTask(i)
          \/ ENABLED CancelTaskEdit

---------------------------------------------------------------------------
(* SpecResume: SpecAutoplay with the next-track and previous-track buttons  *)
(* and their delayed playMusic calls, and without the play / pause button:   *)
(* playback is started and paused by the autoplay effect only.              *)

NextResume ==
    \/ LoadedRender
    \/ loaded = <<>> /\ Reload
    \/ loaded = <<>> /\ ApiReady
    \/ loaded = <<>> /\ PlayerReady
    \/ loaded = <<>> /\ ~timer.isBreak /\ ToggleTimer
    \/ loaded = <<>> /\ Tick
    \/ loaded = <<>> /\ timer.isActive /\ MusicEnabledInput
    \/ loaded = <<>> /\ clock < MaxPlaylist + 1 /\ AddYouTubeTrack(WatchUrl)
    \/ loaded = <<>> /\ \E id \in 2..(MaxPlaylist + 1) : RemoveTrack(id)
    \/ loaded = <<>> /\ NextTrack
    \/ loaded = <<>> /\ PreviousTrack
    \/ loaded = <<>> /\ DelayedPlay

SpecResume == InitAutoplay /\ [][NextResume]_vars

\* C32: when a delayed playMusic call of the next-track or previous-track
\* button fires while the condition of the autoplay policy is false (the
\* session was paused or expired, the kind is Break, music was disabled or
\* the playlist was emptied since the button was pressed), playVideo is not
\* called and isPlaying is false afterwards.
C32_DelayedPlayRespectsPolicy ==
    [][ DelayedPlay /\ ~C26_Policy =>
          ~C26_Called(commands', "playVideo") /\ ~isPlaying' ]_vars

---------------------------------------------------------------------------
\* C33: once no call of executeCode is in flight, console.log is the function
\* that was installed before the first call started (the native one), for
\* every interleaving of overlapping executions.
C33_ConsoleCaptureUndone ==
    executions = {} => consoleLog = "native"

---------------------------------------------------------------------------
(* SpecPersist: every aggregate is mutated and the page is reloaded, or     *)
(* closed and opened again, also between the two renders of a mount.  The   *)
(* visit starts as in SpecExtract.  The timer ticks once after each full    *)
(* minute, so the reloads see 0 and BorrowSeconds in timer.seconds.         *)

NextPersist ==
    \/ LoadedRender
    \/ Reload
    \/ loaded = <<>> /\ \E title \in Titles : AddTodo(title, DefaultEstimate)
    \/ loaded = <<>> /\ \E id \in 1..MaxTracks : DeleteTodo(id)
    \/ loaded = <<>> /\ AddYouTubeTrack(WatchUrl)
    \/ loaded = <<>> /\ \E id \in 1..MaxTracks : RemoveTrack(id)
    \/ loaded = <<>> /\ \E i \in 1..MaxTasks : StartPomodoro(i)
    \/ loaded = <<>> /\ ToggleTimer
    \/ loaded = <<>> /\ timer.seconds = 0 /\ timer.minutes > 0 /\ Tick
    \/ loaded = <<>> /\ MusicEnabledInput
    \/ loaded = <<>> /\ \E raw \in DurationInputs : WorkDurationInput(raw)

SpecPersist == InitExtract /\ [][NextPersist]_vars

\* C34: in every reachable state the four slots of localStorage load to the
\* tasks, the settings and the playlist of the state and to its timer with
\* isActive false; and while the values a load has read are not rendered
\* yet, every slot still loads to the value that was read from it, never to
\* the default.
C34_PersistenceRoundTrips ==
    /\ LoadedTodos(storage) = todos
    /\ LoadedSettings(storage) = settings
    /\ LoadedPlaylist(storage) = youtubePlaylist
    /\ LoadedTimer(storage) = [timer EXCEPT !.isActive = FALSE]
    /\ loaded # <<>> =>
          /\ LoadedTodos(storage) = LoadedTodos(loaded[1].store)
          /\ LoadedSettings(storage) = LoadedSettings(loaded[1].store)
          /\ LoadedPlaylist(storage) = LoadedPlaylist(loaded[1].store)
          /\ LoadedTimer(storage) = LoadedTimer(loaded[1].store)

====
